---- MODULE Spec2Model ----
(***************************************************************************)
(* A model of the OpenStack server lifecycle operations of                 *)
(* nova_plugin/server.py and of the shared helpers of                      *)
(* openstack_plugin_common/__init__.py (cloudify-openstack-plugin 2.14.8). *)
(*                                                                         *)
(* The module holds several specifications over one set of variables, one  *)
(* per part of the plugin:                                                 *)
(*   SpecNics      the NIC list built by _prepare_server_nics              *)
(*   SpecLifecycle create and delete of a server node instance             *)
(*   SpecSnapshot  snapshot_create and snapshot_apply, step by step        *)
(*   SpecAttach    attach_volume and detach_volume, call by call           *)
(*   SpecPower     stop, start and reboot, step by step                    *)
(*   SpecValidate  validate_resource and its quota comparison              *)
(*   SpecPayload   the payload create gives to servers.create              *)
(*   SpecSecurityGroup  connect_ and disconnect_security_group             *)
(*   SpecErrors    the except clauses of with_nova_client                  *)
(*   SpecFloatingIp  connect_ and disconnect_floatingip                    *)
(*   SpecStartFair  start, invoked again after every retry, with fairness  *)
(*   SpecExternalNics  the interface checks of create on an external server*)
(* Each specification leaves the variables of the other parts unchanged.   *)
(*                                                                         *)
(* Python's None and an absent dictionary key are both written None (the   *)
(* empty tuple); provider ids are non-empty tuples of characters, so that  *)
(* Python's substring test on ids can be computed as the code computes it. *)
(***************************************************************************)
EXTENDS Integers, Sequences, FiniteSets, TLC

None == <<>>

\* ------------------------------------------------------------------------
\* Bounds of the model
\* ------------------------------------------------------------------------
MaxInlineNics == 1
MaxNetworkRels == 2
MaxPortRels == 2
MaxInvocations == 4
MaxSnapshotInvocations == 3
MaxAttachInvocations == 2
MaxPowerInvocations == 3

\* ------------------------------------------------------------------------
\* Provider ids.  Neutron ids are UUIDs: strings of one fixed length.
\* ------------------------------------------------------------------------
NetA == <<"n", "a">>
NetB == <<"n", "b">>
NetC == <<"n", "c">>
NetD == <<"n", "d">>
NetE == <<"n", "e">>
NetworkIds == {NetA, NetB, NetC, NetD, NetE}

PortP == <<"p", "1">>
PortQ == <<"p", "2">>
PortIds == {PortP, PortQ}

\* neutron's answer to show_port: the network each port belongs to
PortNetworkId(port_id) == IF port_id = PortP THEN NetD ELSE NetE

ManagementChoices == {None, NetD, NetE}

SeqsUpTo(S, n) == UNION {[1..k -> S] : k \in 0..n}

VARIABLES
    inlineNics,            \* ctx.node.properties['server']['nics']
    relNetworkIds,         \* ids of the networks the server is related to
    relPortIds,            \* ids of the ports the server is related to
    managementNetworkId,   \* _get_management_network_id_and_name()[0]
    network_ids,           \* the local list of _prepare_server_nics
    port_networks,         \* the local list of _prepare_server_nics
    mergedNics,            \* _merge_nics' result, before _normalize_nics
    serverNics,            \* server['nics']
    nicsOutcome            \* "pending" | "ok" | "KeyError"

nicVars == <<inlineNics, relNetworkIds, relPortIds, managementNetworkId,
             network_ids, port_networks, mergedNics, serverNics, nicsOutcome>>

VARIABLES
    useExternal,           \* ctx.node.properties['use_external_resource']
    createIfMissing,       \* ctx.node.properties['create_if_missing']
    resourceId,            \* ctx.node.properties['resource_id'] ("" if unset)
    rt,                    \* ctx.instance.runtime_properties of the server
    novaServers,           \* the provider's servers, by id
    preexisting,           \* the provider's servers before any operation
    ownership,             \* what use_external_resource decided in create
    phase,                 \* where the orchestrator is in the lifecycle
    lastOp,                \* the last invocation: operation, outcome, commands
    invocations            \* number of invocations so far

lifeRest == <<useExternal, createIfMissing, resourceId, novaServers,
              preexisting, ownership, phase, lastOp, invocations>>
lifeVars == <<lifeRest, rt>>

VARIABLES
    snapOp,                \* the server operation run: "create" | "apply" of
                           \* a snapshot, or "stop" | "start" | "reboot"
    snapshot_incremental,  \* kwargs["snapshot_incremental"]
    pc,                    \* the statement the invocation is at, or "idle"
    serverStatus,          \* the provider's server.status
    taskState,             \* the provider's OS-EXT-STS:task_state ("" if none)
    server,                \* the handler's local `server`, as last fetched
    imageListed,           \* glance lists an image of the snapshot's name
    retryAfter,            \* ctx.operation._operation_retry: 0, or the delay
    trace,                 \* commands and retry requests of this invocation
    backupCalls,           \* server.backup / create_image calls so far
    rebuildCalls,          \* server.rebuild calls so far
    snapInvocations,       \* invocations of the operation so far
    snapOutcome            \* how the last invocation ended

snapVars == <<snapOp, snapshot_incremental, pc, serverStatus, taskState,
              server, imageListed, retryAfter, trace, backupCalls,
              rebuildCalls, snapInvocations, snapOutcome>>

VARIABLES
    relationshipExternal, \* the relationship uses external resources that were
                          \* not conditionally created
    device,             \* the volume node's device_name property
    attachOp,           \* "attach" or "detach": the running operation
    attachPc,           \* position inside the running operation
    volumeStatus,       \* the volume's status at the provider
    attachmentListed,   \* the volume lists an attachment to this server
    tries,              \* status reads made by the running wait_until_status
    raised,             \* the exception attach_volume has caught, or "none"
    calls,              \* provider calls of this invocation and their answers
    deviceName,         \* the volume instance's device_name runtime property
    attachInvocations,  \* invocations so far
    attachOutcome,      \* how the last invocation ended
    wrapped,            \* the exception inside the NonRecoverableError that
                        \* ended the last invocation, or "none"
    detachCalls         \* delete_server_volume commands of all invocations

attachVars == <<relationshipExternal, device, attachOp, attachPc, volumeStatus,
                attachmentListed, tries, raised, calls, deviceName,
                attachInvocations, attachOutcome, wrapped, detachCalls>>

VARIABLES
    start_retry_interval,  \* the start_retry_interval input of start
    use_password,          \* the node's use_password property
    reboot_type            \* the reboot_type input of reboot

powerArgs == <<start_retry_interval, use_password, reboot_type>>


VARIABLES
    sugared_client,        \* the client validate_resource is given: "nova",
                           \* "neutron" or "cinder"
    resource_quota,        \* sugared_client.get_quota(openstack_type)
    resource_amount,       \* len(resource_list) of validate_resource (0
                           \* until the resources are counted)
    validateOutcome        \* "pending" | "ok" | "NonRecoverableError"

validateVars == <<sugared_client, resource_quota, resource_amount,
                  validateOutcome>>


VARIABLES
    resolutions            \* the use_external_resource calls of the last
                           \* create: the runtime properties before and
                           \* after, the resource returned, whether it raised

resolveVars == <<resolutions>>


VARIABLES
    serverProperty,        \* ctx.node.properties['server']
    args,                  \* the args input of create
    agents_security_group, \* the provider context's agents security group
                           \* name ("" when there is none)
    agents_keypair,        \* the provider context's agents keypair name ("")
    securityGroupRels,     \* external_name of the related security groups
    keypairRels,           \* external_id of the related keypairs
    sentServers,           \* the payloads given to servers.create so far
    payloadInvocations,    \* invocations of create so far
    payloadOutcome,        \* how the last invocation ended
    payloadError           \* which NonRecoverableError ended it, or "none"

payloadVars == <<serverProperty, args, agents_security_group, agents_keypair,
                 securityGroupRels, keypairRels, sentServers,
                 payloadInvocations, payloadOutcome, payloadError>>


VARIABLES
    sgExternal,            \* both ends of the relationship are declared with
                           \* use_external_resource
    sgConditional,         \* one of the ends was conditionally created
    serverGroups,          \* ids of the security groups the provider lists
                           \* for the server
    sgPending,             \* commands the provider accepted and has not
                           \* applied yet
    sgOp,                  \* "connect" | "disconnect": the running operation
    sgPc,                  \* position inside the running operation
    present,               \* the local `present` of connect_security_group
    sgCalls,               \* provider calls of this invocation
    sgAdds,                \* add_security_group commands of all invocations
    sgConnected,           \* a connect invocation has returned
    sgInvocations,         \* invocations so far
    sgOutcome              \* how the last invocation ended

sgVars == <<sgExternal, sgConditional, serverGroups, sgPending, sgOp, sgPc,
            present, sgCalls, sgAdds, sgConnected, sgInvocations, sgOutcome>>


VARIABLES
    raisedError,           \* the exception the operation's body raised
    surfaced,              \* what left the with_nova_client wrapper
    errorPc,               \* "idle" | "raised"
    errorInvocations       \* invocations of the operation so far

errorVars == <<raisedError, surfaced, errorPc, errorInvocations>>


VARIABLES
    fipExternal,           \* server and floating IP both use_external_resource
    fipConditional,        \* one of the two was conditionally created
    fixed_ip,              \* the fixed_ip input of connect_floatingip
    fipAssociated,         \* provider: the floating IP is the server's
    fipListed,             \* provider: server.networks lists the address
    fipOp,                 \* "none" | "connect" | "disconnect"
    fipPc,                 \* "idle" | "added"
    fipCalls,              \* provider calls of the current invocation
    fipAdds,               \* add_floating_ip commands over all invocations
    fipRemoves,            \* remove_floating_ip commands over all invocations
    fipInvocations,        \* invocations so far
    fipOutcome             \* how the last invocation ended

fipVars == <<fipExternal, fipConditional, fixed_ip, fipAssociated, fipListed,
             fipOp, fipPc, fipCalls, fipAdds, fipRemoves, fipInvocations,
             fipOutcome>>


VARIABLES
    extPortIds,            \* ids of the ports the external server is related to
    extNetworkIds,         \* ids of the networks it is related to
    interfaces,            \* provider: the server's interfaces
    extPc,                 \* "idle" | "attach_ports" | "attach_nets"
    extIndex,              \* position of the running loop in its list
    attached_nets,         \* the net ids listed before the network loop
    extCalls,              \* provider calls of the current invocation
    extOutcome,            \* how the last invocation ended
    extInvocations         \* invocations so far

extNicVars == <<extPortIds, extNetworkIds, interfaces, extPc, extIndex,
                attached_nets, extCalls, extOutcome, extInvocations>>

vars == <<nicVars, lifeVars, snapVars, attachVars, powerArgs, validateVars,
          resolveVars, payloadVars, sgVars, errorVars, fipVars, extNicVars>>

\* the variables each part of the model leaves alone
otherThanNics == <<lifeVars, snapVars, attachVars, powerArgs, validateVars,
                   resolveVars, payloadVars, sgVars, errorVars, fipVars,
                   extNicVars>>
otherThanLifecycle == <<nicVars, snapVars, attachVars, powerArgs,
                        validateVars, resolveVars, payloadVars, sgVars,
                        errorVars, fipVars, extNicVars>>
otherThanSnapshot == <<nicVars, lifeRest, attachVars, powerArgs,
                       validateVars, resolveVars, payloadVars, sgVars,
                       errorVars, fipVars, extNicVars>>
otherThanAttach == <<nicVars, lifeVars, snapVars, powerArgs, validateVars,
                     resolveVars, payloadVars, sgVars, errorVars, fipVars,
                     extNicVars>>
otherThanValidate == <<nicVars, snapVars, attachVars, powerArgs, resolveVars,
                       payloadVars, sgVars, errorVars, fipVars, extNicVars>>
otherThanErrors == <<nicVars, lifeVars, snapVars, attachVars, powerArgs,
                     validateVars, resolveVars, payloadVars, sgVars, fipVars,
                     extNicVars>>
otherThanFip == <<nicVars, lifeVars, snapVars, attachVars, powerArgs,
                  validateVars, resolveVars, payloadVars, sgVars, errorVars,
                  extNicVars>>
otherThanExtNics == <<nicVars, lifeVars, snapVars, attachVars, powerArgs,
                      validateVars, resolveVars, payloadVars, sgVars,
                      errorVars, fipVars>>
otherThanSg == <<nicVars, lifeVars, snapVars, attachVars, powerArgs, validateVars,
                 resolveVars, payloadVars, errorVars, fipVars, extNicVars>>
otherThanPayload == <<nicVars, snapVars, attachVars, powerArgs, validateVars,
                      resolveVars, sgVars, errorVars, fipVars, extNicVars>>
otherThanCreate == <<nicVars, snapVars, attachVars, powerArgs, validateVars,
                     payloadVars, sgVars, errorVars, fipVars, extNicVars>>

\* ------------------------------------------------------------------------
\* NIC entries: dictionaries with the optional keys 'net-id' and 'port-id'
\* ------------------------------------------------------------------------
Nic(net, port) == [net |-> net, port |-> port]
NetNic(net) == Nic(net, None)
PortNic(port) == Nic(None, port)

InlineNicChoices ==
    {NetNic(n) : n \in NetworkIds} \cup
    {PortNic(PortP), Nic(PortNetworkId(PortP), PortP)}

\* Python's `a in b` on two strings
IsSubstring(a, b) ==
    \E i \in 0..(Len(b) - Len(a)) : SubSeq(b, i + 1, i + Len(a)) = a

\* list.remove(x): drops the first element equal to x
RECURSIVE ListRemove(_, _)
ListRemove(s, x) ==
    IF s = <<>> THEN <<>>
    ELSE IF Head(s) = x THEN Tail(s)
    ELSE <<Head(s)>> \o ListRemove(Tail(s), x)

\* get_port_networks: one {'net-id', 'port-id'} entry per port, in order
get_port_networks(port_ids) ==
    [i \in 1..Len(port_ids) |-> Nic(PortNetworkId(port_ids[i]), port_ids[i])]

\* the inner loop of _prepare_server_nics, `for network_id in network_ids`,
\* which removes from the list it iterates: the list iterator keeps an
\* index i into the list as it is now
RECURSIVE RemoveImplied(_, _, _)
RemoveImplied(ids, i, port_network) ==
    IF i > Len(ids) THEN ids
    ELSE IF IsSubstring(ids[i], port_network.net)
         THEN RemoveImplied(ListRemove(ids, ids[i]), i + 1, port_network)
         ELSE RemoveImplied(ids, i + 1, port_network)

\* the outer loop, `for port_network in port_networks`
RECURSIVE RemovePortNetworks(_, _)
RemovePortNetworks(ids, pns) ==
    IF pns = <<>> THEN ids
    ELSE RemovePortNetworks(RemoveImplied(ids, 1, Head(pns)), Tail(pns))

\* any(nic['net-id'] == management_network_id for nic in merged): scans from
\* the left, stops at the first match, and raises KeyError on an entry that
\* has no 'net-id' key
RECURSIVE AnyNetIdIs(_, _)
AnyNetIdIs(merged, management_network_id) ==
    IF merged = <<>> THEN "False"
    ELSE IF Head(merged).net = None THEN "KeyError"
    ELSE IF Head(merged).net = management_network_id THEN "True"
    ELSE AnyNetIdIs(Tail(merged), management_network_id)

MergeSources(nics1, nics2, nics3) == nics1 \o nics2 \o nics3

MergeNicsAppendMgmt(management_network_id, nics1, nics2, nics3) ==
    LET merged == MergeSources(nics1, nics2, nics3)
        found == IF management_network_id = None THEN "True"
                 ELSE AnyNetIdIs(merged, management_network_id)
    IN  IF found = "KeyError" THEN [outcome |-> "KeyError", nics |-> <<>>]
        ELSE IF found = "False"
             THEN [outcome |-> "ok",
                   nics |-> merged \o <<NetNic(management_network_id)>>]
             ELSE [outcome |-> "ok", nics |-> merged]

MergeNicsAlwaysMgmt(management_network_id, nics1, nics2, nics3) ==
    LET merged == MergeSources(nics1, nics2, nics3)
    IN  IF management_network_id = None
        THEN [outcome |-> "ok", nics |-> merged]
        ELSE [outcome |-> "ok",
              nics |-> <<NetNic(management_network_id)>> \o merged]

\* _merge_nics(management_network_id, *nics_sources)
_merge_nics(management_network_id, nics1, nics2, nics3) ==
    LET merged == MergeSources(nics1, nics2, nics3)
        found == IF management_network_id = None THEN "True"
                 ELSE AnyNetIdIs(merged, management_network_id)
    IN  IF found = "KeyError" THEN [outcome |-> "KeyError", nics |-> <<>>]
        ELSE IF found = "False"
             THEN [outcome |-> "ok",
                   nics |-> <<NetNic(management_network_id)>> \o merged]
             ELSE [outcome |-> "ok", nics |-> merged]

NormalizeKeepNet(nic) ==
    IF nic.port # None /\ nic.net # None THEN Nic(nic.net, None) ELSE nic

\* _normalize_nics._normalize
_normalize(nic) ==
    IF nic.port # None /\ nic.net # None THEN Nic(None, nic.port) ELSE nic

_normalize_nics(nics) == [i \in 1..Len(nics) |-> _normalize(nics[i])]

\* ------------------------------------------------------------------------
\* Dictionaries (runtime properties, the provider's servers by id)
\* ------------------------------------------------------------------------
EmptyMap == [k \in {} |-> None]
Put(m, k, v) == [x \in DOMAIN m \cup {k} |-> IF x = k THEN v ELSE m[x]]
Del(m, K) == [x \in DOMAIN m \ K |-> m[x]]
Get(m, k, default) == IF k \in DOMAIN m THEN m[k] ELSE default

\* runtime property keys
OPENSTACK_ID_PROPERTY == "external_id"
OPENSTACK_TYPE_PROPERTY == "external_type"
OPENSTACK_NAME_PROPERTY == "external_name"
OPENSTACK_RESOURCE_PROPERTY == "external_resource"
CONDITIONALLY_CREATED == "conditionally_created"
COMMON_RUNTIME_PROPERTIES_KEYS ==
    {OPENSTACK_ID_PROPERTY, OPENSTACK_TYPE_PROPERTY, OPENSTACK_NAME_PROPERTY,
     OPENSTACK_RESOURCE_PROPERTY, CONDITIONALLY_CREATED}
SERVER_OPENSTACK_TYPE == "server"
NETWORKS_PROPERTY == "networks"
IP_PROPERTY == "ip"
ADMIN_PASSWORD_PROPERTY == "password"
RUNTIME_PROPERTIES_KEYS ==
    COMMON_RUNTIME_PROPERTIES_KEYS \cup
    {NETWORKS_PROPERTY, IP_PROPERTY, ADMIN_PASSWORD_PROPERTY}
IpListKeys ==
    {"ipv4_addresses", "ipv6_addresses", "ipv4_address", "ipv6_address"}

\* the values of the variables of the server lifecycle in the specifications
\* that do not run it
LifeIdle ==
    /\ useExternal = FALSE
    /\ createIfMissing = FALSE
    /\ resourceId = ""
    /\ rt = EmptyMap
    /\ novaServers = EmptyMap
    /\ preexisting = EmptyMap
    /\ ownership = "Unresolved"
    /\ phase = "idle"
    /\ lastOp = [name |-> "none", outcome |-> "none", commands |-> <<>>]
    /\ invocations = 0

\* ------------------------------------------------------------------------
\* The provider's servers
\* ------------------------------------------------------------------------
NovaServer(name, hasNetworks) ==
    [name |-> name, hasNetworks |-> hasNetworks, deleting |-> FALSE]

\* what the provider holds before the deployment is installed: nothing, one
\* server named "web", two servers of that name, or a server named "web"
\* and a server whose name is the first one's id (names are free text)
PreexistingChoices ==
    {EmptyMap}
    \cup {[i \in {"s1"} |-> NovaServer("web", n)] : n \in BOOLEAN}
    \cup {[i \in {"s1", "s2"} |-> NovaServer("web", TRUE)]}
    \cup {[i \in {"s1", "s2"} |->
              NovaServer(IF i = "s1" THEN "web" ELSE "s1", TRUE)]}

ResourceIdChoices == {"", "web", "s1", "db"}

\* the id nova gives to the server this deployment creates
NewServerId == "s3"

\* OpenStackClient._cosmo_get(obj_type_single, True, **kw) on servers:
\* NovaClientWithSugar.cosmo_list is findall(**kw)
cosmo_get_if_exists(servers, field, value) ==
    LET ls == {i \in DOMAIN servers :
                  IF field = "id" THEN i = value ELSE servers[i].name = value}
    IN  IF Cardinality(ls) > 1
        THEN [raised |-> TRUE, id |-> ""]
        ELSE IF ls = {} THEN [raised |-> FALSE, id |-> ""]
        ELSE [raised |-> FALSE, id |-> CHOOSE i \in ls : TRUE]

\* get_resource_by_name_or_id(resource_id, ..., raise_if_not_found=True)
get_resource_by_name_or_id(servers, resource_id) ==
    LET byName == cosmo_get_if_exists(servers, "name", resource_id)
        byId == cosmo_get_if_exists(servers, "id", resource_id)
    IN  IF byName.raised THEN byName
        ELSE IF byName.id # "" THEN byName
        ELSE IF byId.raised THEN byId
        ELSE IF byId.id # "" THEN byId
        ELSE [raised |-> TRUE, id |-> ""]

\* _get_resource_by_name_or_id_from_ctx
_get_resource_by_name_or_id_from_ctx(r, servers) ==
    LET resource_id == Get(r, OPENSTACK_ID_PROPERTY, resourceId)
    IN  IF resource_id = "" THEN [raised |-> TRUE, id |-> ""]
        ELSE get_resource_by_name_or_id(servers, resource_id)

is_external_resource == useExternal

IsCreateIfMissingAlways == TRUE

is_create_if_missing == createIfMissing

\* is_external_resource_not_conditionally_created(ctx)
is_external_resource_not_conditionally_created(r) ==
    is_external_resource /\ Get(r, CONDITIONALLY_CREATED, FALSE) # TRUE

\* _handle_kw, as run by with_nova_client around a node operation: the
\* resource_id property seeds external_id when that is not stored yet
_handle_kw(r) ==
    IF resourceId # "" /\ OPENSTACK_ID_PROPERTY \notin DOMAIN r
    THEN Put(r, OPENSTACK_ID_PROPERTY, resourceId)
    ELSE r

UseExternalResourceWritesType(r, servers) ==
    IF ~is_external_resource
    THEN [rt |-> r, id |-> "", raised |-> FALSE, decided |-> "Managed"]
    ELSE LET res == _get_resource_by_name_or_id_from_ctx(r, servers)
         IN  IF res.raised
             THEN IF is_create_if_missing
                  THEN [rt |-> Put(Put(r, CONDITIONALLY_CREATED, TRUE),
                                   OPENSTACK_TYPE_PROPERTY,
                                   SERVER_OPENSTACK_TYPE),
                        id |-> "", raised |-> FALSE,
                        decided |-> "ConditionallyCreated"]
                  ELSE [rt |-> r, id |-> "", raised |-> TRUE,
                        decided |-> "Unresolved"]
             ELSE [rt |-> Put(Put(Put(Put(r,
                              OPENSTACK_ID_PROPERTY, res.id),
                              OPENSTACK_TYPE_PROPERTY, SERVER_OPENSTACK_TYPE),
                              OPENSTACK_RESOURCE_PROPERTY, servers[res.id]),
                              OPENSTACK_NAME_PROPERTY, servers[res.id].name),
                   id |-> res.id, raised |-> FALSE, decided |-> "External"]

\* use_external_resource(ctx, nova_client, 'server'): the runtime properties
\* it leaves, the resource it returns ("" for None) and whether it raised
use_external_resource(r, servers) ==
    IF ~is_external_resource
    THEN [rt |-> r, id |-> "", raised |-> FALSE, decided |-> "Managed"]
    ELSE LET res == _get_resource_by_name_or_id_from_ctx(r, servers)
         IN  IF res.raised
             THEN IF is_create_if_missing
                  THEN [rt |-> Put(r, CONDITIONALLY_CREATED, TRUE), id |-> "",
                        raised |-> FALSE, decided |-> "ConditionallyCreated"]
                  ELSE [rt |-> r, id |-> "", raised |-> TRUE,
                        decided |-> "Unresolved"]
             ELSE [rt |-> Put(Put(Put(Put(r,
                              OPENSTACK_ID_PROPERTY, res.id),
                              OPENSTACK_TYPE_PROPERTY, SERVER_OPENSTACK_TYPE),
                              OPENSTACK_RESOURCE_PROPERTY, servers[res.id]),
                              OPENSTACK_NAME_PROPERTY, servers[res.id].name),
                   id |-> res.id, raised |-> FALSE, decided |-> "External"]

\* _set_network_and_ip_runtime_properties(server), for a server that has
\* networks
SetNetworkAndIp(r) ==
    LET withIps == [x \in DOMAIN r \cup IpListKeys |->
                       IF x \in IpListKeys THEN "addresses" ELSE r[x]]
    IN  Put(Put(withIps, NETWORKS_PROPERTY, "ips"), IP_PROPERTY, "10.0.0.1")

DeleteNoProperties(r, keys) == r

\* delete_runtime_properties(ctx, runtime_properties_keys)
delete_runtime_properties(r, keys) == Del(r, keys)

\* get_resource_id(ctx, 'server')
get_resource_id ==
    IF resourceId # "" THEN resourceId ELSE "server_dep_inst"

Invocation(name, outcome, commands) ==
    [name |-> name, outcome |-> outcome, commands |-> commands]

\* the values of the variables of the snapshot operations in the
\* specifications that do not run them
SnapIdle ==
    /\ snapOp = "none"
    /\ snapshot_incremental = FALSE
    /\ pc = "idle"
    /\ serverStatus = "ACTIVE"
    /\ taskState = ""
    /\ server = [status |-> "ACTIVE", task |-> ""]
    /\ imageListed = FALSE
    /\ retryAfter = 0
    /\ trace = <<>>
    /\ backupCalls = 0
    /\ rebuildCalls = 0
    /\ snapInvocations = 0
    /\ snapOutcome = "none"

\* the values of the variables of the NIC composer in the specifications
\* that do not run it
AttachIdle ==
    /\ relationshipExternal = FALSE
    /\ device = "auto"
    /\ attachOp = "none"
    /\ attachPc = "idle"
    /\ volumeStatus = "available"
    /\ attachmentListed = FALSE
    /\ tries = 0
    /\ raised = "none"
    /\ calls = <<>>
    /\ deviceName = ""
    /\ attachInvocations = 0
    /\ attachOutcome = "none"
    /\ wrapped = "none"
    /\ detachCalls = 0

PowerArgsIdle ==
    /\ start_retry_interval = 30
    /\ use_password = FALSE
    /\ reboot_type = "soft"

NicsIdle ==
    /\ inlineNics = <<>>
    /\ relNetworkIds = <<>>
    /\ relPortIds = <<>>
    /\ managementNetworkId = None
    /\ network_ids = <<>>
    /\ port_networks = <<>>
    /\ mergedNics = <<>>
    /\ serverNics = <<>>
    /\ nicsOutcome = "idle"


\* the values of the variables of validate_resource in the specifications
\* that do not run it
ValidateIdle ==
    /\ sugared_client = "nova"
    /\ resource_quota = -1
    /\ resource_amount = 0
    /\ validateOutcome = "idle"


\* no create has run
ResolveIdle == resolutions = <<>>


\* the values of the variables of the creation payload in the specifications
\* that do not build it
PayloadIdle ==
    /\ serverProperty = EmptyMap
    /\ args = EmptyMap
    /\ agents_security_group = ""
    /\ agents_keypair = ""
    /\ securityGroupRels = <<>>
    /\ keypairRels = <<>>
    /\ sentServers = <<>>
    /\ payloadInvocations = 0
    /\ payloadOutcome = "idle"
    /\ payloadError = "none"


\* the values of the variables of the security group operations in the
\* specifications that do not run them
SgIdle ==
    /\ sgExternal = FALSE
    /\ sgConditional = FALSE
    /\ serverGroups = {}
    /\ sgPending = {}
    /\ sgOp = "none"
    /\ sgPc = "idle"
    /\ present = FALSE
    /\ sgCalls = <<>>
    /\ sgAdds = 0
    /\ sgConnected = FALSE
    /\ sgInvocations = 0
    /\ sgOutcome = "idle"


\* the values of the variables of the client wrapper in the specifications
\* that do not follow it
ErrorIdle ==
    /\ raisedError = [kind |-> "none", code |-> 0, retry_after |-> 0]
    /\ surfaced = [type |-> "none", code |-> 0, retry_after |-> 0,
                   wraps |-> "none"]
    /\ errorPc = "idle"
    /\ errorInvocations = 0


\* the values of the floating IP variables in the specifications that do not
\* follow connect_floatingip and disconnect_floatingip
FipIdle ==
    /\ fipExternal = FALSE
    /\ fipConditional = FALSE
    /\ fixed_ip = ""
    /\ fipAssociated = FALSE
    /\ fipListed = FALSE
    /\ fipOp = "none"
    /\ fipPc = "idle"
    /\ fipCalls = <<>>
    /\ fipAdds = 0
    /\ fipRemoves = 0
    /\ fipInvocations = 0
    /\ fipOutcome = "none"


\* the values of the variables of _validate_external_server_nics in the
\* specifications that do not run it
ExtNicIdle ==
    /\ extPortIds = <<>>
    /\ extNetworkIds = <<>>
    /\ interfaces = {}
    /\ extPc = "idle"
    /\ extIndex = 0
    /\ attached_nets = {}
    /\ extCalls = <<>>
    /\ extOutcome = "none"
    /\ extInvocations = 0

\* ------------------------------------------------------------------------
\* SpecNics: _prepare_server_nics on every declared NIC configuration
\* ------------------------------------------------------------------------
InitNics ==
    /\ inlineNics \in SeqsUpTo(InlineNicChoices, MaxInlineNics)
    /\ relNetworkIds \in SeqsUpTo(NetworkIds, MaxNetworkRels)
    /\ relPortIds \in SeqsUpTo(PortIds, MaxPortRels)
    /\ managementNetworkId \in ManagementChoices
    /\ network_ids = relNetworkIds
    /\ port_networks = <<>>
    /\ mergedNics = <<>>
    /\ serverNics = inlineNics
    /\ nicsOutcome = "pending"
    /\ LifeIdle
    /\ SnapIdle
    /\ AttachIdle
    /\ PowerArgsIdle
    /\ ValidateIdle
    /\ ResolveIdle
    /\ PayloadIdle
    /\ SgIdle
    /\ ErrorIdle
    /\ FipIdle
    /\ ExtNicIdle

\* _prepare_server_nics(neutron_client, ctx, server)
PrepareServerNics ==
    /\ nicsOutcome = "pending"
    /\ LET pns == get_port_networks(relPortIds)
           ids == RemovePortNetworks(relNetworkIds, pns)
           m == _merge_nics(managementNetworkId, serverNics,
                            [i \in 1..Len(ids) |-> NetNic(ids[i])], pns)
       IN  /\ port_networks' = pns
           /\ network_ids' = ids
           /\ nicsOutcome' = m.outcome
           /\ mergedNics' = m.nics
           /\ serverNics' = IF m.outcome = "ok" THEN _normalize_nics(m.nics)
                            ELSE serverNics
    /\ UNCHANGED <<inlineNics, relNetworkIds, relPortIds, managementNetworkId>>
    /\ UNCHANGED otherThanNics

NextNics == PrepareServerNics

SpecNics == InitNics /\ [][NextNics]_vars

\* ------------------------------------------------------------------------
\* SpecLifecycle: create and delete of one server node instance
\* ------------------------------------------------------------------------
InitLifecycle ==
    /\ useExternal \in BOOLEAN
    /\ createIfMissing \in BOOLEAN
    /\ resourceId \in ResourceIdChoices
    /\ preexisting \in PreexistingChoices
    /\ novaServers = preexisting
    /\ rt = EmptyMap
    /\ ownership = "Unresolved"
    /\ phase = "new"
    /\ lastOp = Invocation("none", "none", <<>>)
    /\ invocations = 0
    /\ NicsIdle
    /\ SnapIdle
    /\ AttachIdle
    /\ PowerArgsIdle
    /\ ValidateIdle
    /\ ResolveIdle
    /\ PayloadIdle
    /\ SgIdle
    /\ ErrorIdle
    /\ FipIdle
    /\ ExtNicIdle

\* one call of use_external_resource, as create records it
Resolution(before, u) ==
    [before |-> before, after |-> u.rt, returned |-> u.id,
     raised |-> u.raised]

\* create(nova_client, neutron_client, args), for a server without network,
\* port and keypair relationships.  The runtime properties are stored when
\* the invocation ends, however it ends.
Create ==
    /\ phase \in {"new", "creating"}
    /\ invocations < MaxInvocations
    /\ invocations' = invocations + 1
    /\ LET r0 == _handle_kw(rt)
           u == use_external_resource(r0, novaServers)
           \* "need to reload server for full list of networks"
           u2 == use_external_resource(u.rt, novaServers)
       IN  IF u.raised
           THEN /\ rt' = u.rt
                /\ resolutions' = <<Resolution(r0, u)>>
                /\ lastOp' = Invocation("create", "NonRecoverableError", <<>>)
                /\ phase' = "failed"
                /\ UNCHANGED <<novaServers, ownership>>
           ELSE IF u.id # ""
           THEN \* an external server was found
                /\ ownership' = u.decided
                /\ UNCHANGED novaServers
                /\ resolutions' = <<Resolution(r0, u), Resolution(u.rt, u2)>>
                /\ rt' = IF ~u2.raised /\ u2.id # ""
                            /\ novaServers[u2.id].hasNetworks
                         THEN SetNetworkAndIp(u2.rt) ELSE u2.rt
                /\ IF u2.raised
                   THEN /\ lastOp' = Invocation("create",
                                                "NonRecoverableError", <<>>)
                        /\ phase' = "failed"
                   ELSE IF u2.id = ""
                   THEN \* _set_network_and_ip_runtime_properties(None)
                        /\ lastOp' = Invocation("create", "AttributeError",
                                                <<>>)
                        /\ phase' = "creating"
                   ELSE IF novaServers[u2.id].hasNetworks
                   THEN /\ lastOp' = Invocation("create", "ok", <<>>)
                        /\ phase' = "created"
                   ELSE /\ lastOp' = Invocation("create",
                                                "NonRecoverableError", <<>>)
                        /\ phase' = "failed"
           ELSE \* the server is to be created
                /\ ownership' = u.decided
                /\ resolutions' = <<Resolution(r0, u)>>
                /\ \E answer \in {"created", "bdm_invalid", "bad_payload"} :
                    CASE answer = "bad_payload" ->
                            /\ rt' = u.rt
                            /\ lastOp' = Invocation("create",
                                             "NonRecoverableError", <<>>)
                            /\ phase' = "failed"
                            /\ UNCHANGED novaServers
                      [] answer = "bdm_invalid" ->
                            /\ rt' = Put(u.rt, SERVER_OPENSTACK_TYPE, "payload")
                            /\ lastOp' = Invocation("create", "retry",
                                             <<"servers.create">>)
                            /\ phase' = "creating"
                            /\ UNCHANGED novaServers
                      [] answer = "created" ->
                            /\ NewServerId \notin DOMAIN novaServers
                            /\ novaServers' =
                                   Put(novaServers, NewServerId,
                                       NovaServer(get_resource_id, TRUE))
                            /\ rt' = Put(Put(Put(Put(u.rt,
                                       SERVER_OPENSTACK_TYPE, "payload"),
                                       OPENSTACK_ID_PROPERTY, NewServerId),
                                       OPENSTACK_TYPE_PROPERTY,
                                       SERVER_OPENSTACK_TYPE),
                                       OPENSTACK_NAME_PROPERTY, get_resource_id)
                            /\ lastOp' = Invocation("create", "ok",
                                             <<"servers.create">>)
                            /\ phase' = "created"
    /\ UNCHANGED <<useExternal, createIfMissing, resourceId, preexisting>>
    /\ UNCHANGED otherThanCreate

\* _wait_for_server_to_be_deleted(nova_client, server_id, timeout=120,
\* sleep_interval=5), for a provider that reports the server NotFound from
\* goneAfter seconds after the delete command on: the loop, from the time
\* waited so far and the calls made so far
timeout == 120
sleep_interval == 5

RECURSIVE WaitLoop(_, _, _)
WaitLoop(waited, goneAfter, made) ==
    IF waited < timeout
    THEN IF goneAfter <= waited
         THEN [outcome |-> "ok",
               calls |-> Append(made, "servers.get:NotFound")]
         ELSE WaitLoop(waited + sleep_interval, goneAfter,
                       Append(made, "servers.get"))
    ELSE [outcome |-> "RuntimeError", calls |-> made]

WaitReturnsOnTimeout(goneAfter) ==
    [WaitLoop(0, goneAfter, <<>>) EXCEPT !.outcome = "ok"]

_wait_for_server_to_be_deleted(goneAfter) == WaitLoop(0, goneAfter, <<>>)

\* when the provider drops the server: at once, after one sleep, before the
\* last read of the wait, or not within the wait
GoneAfterChoices == {0, sleep_interval, timeout - sleep_interval, timeout}

\* delete(nova_client), with _wait_for_server_to_be_deleted
Delete ==
    /\ phase \in {"created", "failed", "deleting"}
    /\ invocations < MaxInvocations
    /\ invocations' = invocations + 1
    /\ LET r0 == _handle_kw(rt)
       IN  IF ~is_external_resource
           THEN IF OPENSTACK_ID_PROPERTY \notin DOMAIN r0
                THEN \* get_openstack_id: KeyError
                     /\ rt' = r0
                     /\ lastOp' = Invocation("delete", "KeyError", <<>>)
                     /\ phase' = "deleting"
                     /\ UNCHANGED novaServers
                ELSE IF r0[OPENSTACK_ID_PROPERTY] \notin DOMAIN novaServers
                THEN \* servers.get: NotFound (404), with_nova_client
                     /\ rt' = r0
                     /\ lastOp' = Invocation("delete", "NonRecoverableError",
                                             <<>>)
                     /\ phase' = "delete_failed"
                     /\ UNCHANGED novaServers
                ELSE \E goneAfter \in GoneAfterChoices :
                       LET id == r0[OPENSTACK_ID_PROPERTY]
                           wait == _wait_for_server_to_be_deleted(goneAfter)
                           commands == <<"servers.delete">> \o wait.calls
                       IN  /\ novaServers' =
                                  IF goneAfter < timeout
                                  THEN Del(novaServers, {id})
                                  ELSE Put(novaServers, id,
                                           [novaServers[id] EXCEPT
                                               !.deleting = TRUE])
                           /\ IF wait.outcome = "ok"
                              THEN /\ rt' = delete_runtime_properties(
                                                r0, RUNTIME_PROPERTIES_KEYS)
                                   /\ lastOp' = Invocation("delete", "ok",
                                                           commands)
                                   /\ phase' = "deleted"
                              ELSE /\ rt' = r0
                                   /\ lastOp' = Invocation("delete",
                                                    wait.outcome, commands)
                                   /\ phase' = "deleting"
           ELSE /\ rt' = delete_runtime_properties(r0, RUNTIME_PROPERTIES_KEYS)
                /\ lastOp' = Invocation("delete", "ok", <<>>)
                /\ phase' = "deleted"
                /\ UNCHANGED novaServers
    /\ UNCHANGED <<useExternal, createIfMissing, resourceId, preexisting,
                   ownership>>
    /\ UNCHANGED otherThanLifecycle

\* the provider completes a deletion it was asked for
NovaFinishesDelete ==
    /\ \E id \in DOMAIN novaServers :
        /\ novaServers[id].deleting
        /\ novaServers' = Del(novaServers, {id})
    /\ UNCHANGED <<useExternal, createIfMissing, resourceId, rt, preexisting,
                   ownership, phase, lastOp, invocations>>
    /\ UNCHANGED otherThanLifecycle

NextLifecycle == Create \/ Delete \/ NovaFinishesDelete

SpecLifecycle == InitLifecycle /\ [][NextLifecycle]_vars


\* ------------------------------------------------------------------------
\* Properties of the NIC list (SpecNics)
\* ------------------------------------------------------------------------
Count(s, x) == Cardinality({i \in DOMAIN s : s[i] = x})

RECURSIVE IsSubsequence(_, _)
IsSubsequence(s, t) ==
    IF s = <<>> THEN TRUE
    ELSE IF t = <<>> THEN FALSE
    ELSE IF Head(s) = Head(t) THEN IsSubsequence(Tail(s), Tail(t))
    ELSE IsSubsequence(s, Tail(t))

RelPortNetworks == {PortNetworkId(relPortIds[i]) : i \in DOMAIN relPortIds}
RelNetworks == {relNetworkIds[i] : i \in DOMAIN relNetworkIds}
InlineNetworks == {inlineNics[i].net : i \in DOMAIN inlineNics} \ {None}

\* the declared sources name the management network
ManagementDeclared ==
    managementNetworkId \in InlineNetworks \cup RelNetworks \cup RelPortNetworks

ExpectedManagementPart ==
    IF managementNetworkId # None /\ ~ManagementDeclared
    THEN <<NetNic(managementNetworkId)>> ELSE <<>>
ExpectedInlinePart ==
    [i \in DOMAIN inlineNics |->
        IF inlineNics[i].port # None THEN PortNic(inlineNics[i].port)
        ELSE inlineNics[i]]
ExpectedNetworkPart == [i \in DOMAIN relNetworkIds |-> NetNic(relNetworkIds[i])]
ExpectedPortPart == [i \in DOMAIN relPortIds |-> PortNic(relPortIds[i])]

\* C1: the composed NIC list is the management network (when it is added),
\* then the inline NICs in the given order, then the related networks in
\* declared order, then the port-derived NICs in declared order; when no
\* related network is the network of a related port, every related network
\* is there.
C1_NicOrdering ==
    nicsOutcome = "ok" =>
        LET head == ExpectedManagementPart \o ExpectedInlinePart
            from == Len(head) + 1
            to == Len(serverNics) - Len(relPortIds)
        IN  /\ Len(serverNics) >= Len(head) + Len(relPortIds)
            /\ SubSeq(serverNics, 1, Len(head)) = head
            /\ SubSeq(serverNics, to + 1, Len(serverNics)) = ExpectedPortPart
            /\ IsSubsequence(SubSeq(serverNics, from, to), ExpectedNetworkPart)
            /\ RelNetworks \cap RelPortNetworks = {} =>
                   SubSeq(serverNics, from, to) = ExpectedNetworkPart

\* inline [A], networks [B, C], port P of network D, management network E
C1_Witness ==
    /\ inlineNics = <<NetNic(NetA)>>
    /\ relNetworkIds = <<NetB, NetC>>
    /\ relPortIds = <<PortP>>
    /\ managementNetworkId = NetE
    /\ nicsOutcome = "ok"
    /\ serverNics = <<NetNic(NetE), NetNic(NetA), NetNic(NetB), NetNic(NetC),
                      PortNic(PortP)>>

\* C2: a related network that is the network of a related port has no entry
\* of its own in the composed NIC list: the only entries naming just that
\* network are the inline ones.
C2_NicDeduplication ==
    nicsOutcome = "ok" =>
        \A n \in RelNetworks \cap RelPortNetworks :
            Count(serverNics, NetNic(n)) = Count(inlineNics, NetNic(n))

\* C3: no entry of the composed list has both a network id and a port id; an
\* entry that had both keeps its port id only, every other entry is as it
\* was before the normalization.
C3_NicNormalization ==
    nicsOutcome = "ok" =>
        /\ Len(serverNics) = Len(mergedNics)
        /\ \A i \in DOMAIN serverNics :
            /\ ~(serverNics[i].net # None /\ serverNics[i].port # None)
            /\ (mergedNics[i].net # None /\ mergedNics[i].port # None) =>
                   serverNics[i] = PortNic(mergedNics[i].port)
            /\ (mergedNics[i].net = None \/ mergedNics[i].port = None) =>
                   serverNics[i] = mergedNics[i]

C3_Witness ==
    /\ nicsOutcome = "ok"
    /\ inlineNics = <<NetNic(NetA)>>
    /\ relPortIds = <<PortP>>
    /\ mergedNics = <<NetNic(NetA), Nic(NetD, PortP)>>
    /\ serverNics = <<NetNic(NetA), PortNic(PortP)>>

\* the concatenation of the sources handed to _merge_nics
ConcatenatedSources ==
    inlineNics \o [i \in DOMAIN network_ids |-> NetNic(network_ids[i])]
               \o port_networks

\* C4: with a management network M, the composed list starts with an entry
\* naming only M when no entry of the concatenated sources targets M; when
\* one does, nothing is added to the concatenated sources.
C4_ManagementInsertion ==
    (nicsOutcome = "ok" /\ managementNetworkId # None) =>
        LET targeted == \E i \in DOMAIN ConcatenatedSources :
                            ConcatenatedSources[i].net = managementNetworkId
        IN  /\ ~targeted =>
                /\ serverNics # <<>>
                /\ Head(serverNics) = NetNic(managementNetworkId)
                /\ Len(serverNics) = Len(ConcatenatedSources) + 1
            /\ targeted =>
                /\ Len(serverNics) = Len(ConcatenatedSources)
                /\ \A i \in DOMAIN serverNics :
                       serverNics[i] = _normalize(ConcatenatedSources[i])

C4_Witness ==
    /\ nicsOutcome = "ok"
    /\ managementNetworkId = NetE
    /\ inlineNics = <<NetNic(NetA)>>
    /\ relNetworkIds = <<NetB>>
    /\ relPortIds = <<PortP>>
    /\ Head(serverNics) = NetNic(NetE)
    /\ Len(serverNics) = 4

\* ------------------------------------------------------------------------
\* Properties of create and delete (SpecLifecycle)
\* ------------------------------------------------------------------------
Range(s) == {s[i] : i \in DOMAIN s}

DeleteReturned == lastOp.name = "delete" /\ lastOp.outcome = "ok"

\* C5: once delete has returned for a server that create made after resolving
\* it as conditionally created, delete has issued the provider's delete for
\* it: the server is not left at the provider without a delete call.
C5_ConditionallyCreatedIsDeleted ==
    (DeleteReturned /\ ownership = "ConditionallyCreated"
        /\ NewServerId \in DOMAIN novaServers) =>
        "servers.delete" \in Range(lastOp.commands)

\* C6: delete of an external server that create found at the provider
\* returns without a provider command, leaves none of the keys of
\* RUNTIME_PROPERTIES_KEYS stored, and leaves the provider's servers as they
\* were.
C6_ExternalDeleteOnlyClears ==
    (lastOp.name = "delete" /\ ownership = "External") =>
        /\ lastOp.outcome = "ok"
        /\ lastOp.commands = <<>>
        /\ DOMAIN rt \cap {"external_id", "external_type", "external_name",
                           "external_resource", "conditionally_created",
                           "networks", "ip", "password"} = {}
        /\ novaServers = preexisting

C6_Witness ==
    /\ lastOp.name = "delete"
    /\ ownership = "External"
    /\ phase = "deleted"
    /\ invocations = 2
    /\ "s1" \in DOMAIN novaServers
    /\ "ipv4_address" \in DOMAIN rt
    /\ "external_id" \notin DOMAIN rt

\* ------------------------------------------------------------------------
\* SpecSnapshot: snapshot_create and snapshot_apply of a managed server,
\* statement by statement, beside a provider that moves on by itself.
\*
\* ctx.operation.retry(...) stores the retry request in the operation context
\* and returns it; the handlers written `return ctx.operation.retry(...)` hand
\* it back to their caller.  The request is honoured when the invocation has
\* returned.  The runtime properties are stored when the invocation ends.
\* ------------------------------------------------------------------------
SERVER_STATUS_ACTIVE == "ACTIVE"
SERVER_STATUS_SHUTOFF == "SHUTOFF"
SERVER_TASK_STATE_POWERING_ON == "powering-on"
SERVER_TASK_STATE_POWERING_OFF == "powering-off"
RetryDelay == 30

\* _get_snapshot_name(ctx, kwargs)
_get_snapshot_name ==
    IF snapshot_incremental THEN "vm-s3-snap-increment" ELSE "vm-s3-snap-backup"

\* nova answers a command on a server with a task in progress with 409
\* Conflict, or takes it
Answers == IF taskState = "" THEN {TRUE} ELSE BOOLEAN

\* ctx.operation.retry(message=..., retry_after=30)
RequestRetry(kind) ==
    /\ retryAfter' = RetryDelay
    /\ trace' = Append(trace, kind)

\* the invocation returns: a stored retry request is raised by the caller of
\* the handler as OperationRetry
Return ==
    /\ pc' = "idle"
    /\ snapOutcome' = IF retryAfter # 0 THEN "retry" ELSE "ok"

\* the invocation ends with an exception
Raise(error) ==
    /\ pc' = "idle"
    /\ snapOutcome' = error

\* the decision of _check_finished_upload(nova_client, server, waiting_list)
\* on the server as the provider has it now
IsBusy(waiting_list) == taskState \in waiting_list

InitSnapshot ==
    /\ snapOp \in {"create", "apply"}
    /\ snapshot_incremental \in BOOLEAN
    /\ pc = "idle"
    /\ serverStatus \in {SERVER_STATUS_ACTIVE, SERVER_STATUS_SHUTOFF}
    /\ taskState \in {"", "image_uploading", SERVER_TASK_STATE_POWERING_OFF}
    /\ server = [status |-> serverStatus, task |-> taskState]
    /\ imageListed \in BOOLEAN
    /\ retryAfter = 0
    /\ trace = <<>>
    /\ backupCalls = 0
    /\ rebuildCalls = 0
    /\ snapInvocations = 0
    /\ snapOutcome = "none"
    /\ \E marker \in {"", "done"} :
        LET created == [k \in {OPENSTACK_ID_PROPERTY, OPENSTACK_TYPE_PROPERTY,
                               OPENSTACK_NAME_PROPERTY} |->
                           IF k = OPENSTACK_ID_PROPERTY THEN NewServerId
                           ELSE IF k = OPENSTACK_TYPE_PROPERTY
                                THEN SERVER_OPENSTACK_TYPE
                                ELSE "server_dep_inst"]
            key == IF snapOp = "create" THEN "backupstate" ELSE "restorestate"
        IN  rt = IF marker = "" THEN created ELSE Put(created, key, marker)
    /\ useExternal = FALSE
    /\ createIfMissing = FALSE
    /\ resourceId = ""
    /\ novaServers = [i \in {NewServerId} |-> NovaServer("server_dep_inst", TRUE)]
    /\ preexisting = EmptyMap
    /\ ownership = "Managed"
    /\ phase = "created"
    /\ lastOp = Invocation("create", "ok", <<"servers.create">>)
    /\ invocations = 1
    /\ NicsIdle
    /\ AttachIdle
    /\ PowerArgsIdle
    /\ ValidateIdle
    /\ ResolveIdle
    /\ PayloadIdle
    /\ SgIdle
    /\ ErrorIdle
    /\ FipIdle
    /\ ExtNicIdle

\* the orchestrator invokes the operation, the first time or after a retry
\* request; the handler starts with server = get_server_by_context(...)
SnapshotInvoke ==
    /\ pc = "idle"
    /\ snapOutcome \in {"none", "retry"}
    /\ snapInvocations < MaxSnapshotInvocations
    /\ snapInvocations' = snapInvocations + 1
    /\ pc' = IF snapOp = "create" THEN "create_get_image" ELSE "apply_get_image"
    /\ server' = [status |-> serverStatus, task |-> taskState]
    /\ retryAfter' = 0
    /\ trace' = <<>>
    /\ UNCHANGED <<snapOp, snapshot_incremental, serverStatus, taskState,
                   imageListed, backupCalls, rebuildCalls, snapOutcome, rt>>
    /\ UNCHANGED otherThanSnapshot

\* snapshot_create: image_id, _ = _get_image(...); if image_id: raise
CreateGetImage ==
    /\ pc = "create_get_image"
    /\ IF imageListed
       THEN Raise("NonRecoverableError")
       ELSE pc' = "create_check_before" /\ UNCHANGED snapOutcome
    /\ UNCHANGED <<snapOp, snapshot_incremental, serverStatus, taskState,
                   server, imageListed, retryAfter, trace, backupCalls,
                   rebuildCalls, snapInvocations, rt>>
    /\ UNCHANGED otherThanSnapshot

\* snapshot_create: _check_finished_upload(..., ['image_uploading']), whose
\* result is dropped, then the test of backupstate
CreateCheckBefore ==
    /\ pc = "create_check_before"
    /\ IF IsBusy({"image_uploading"})
       THEN RequestRetry("retry:busy")
       ELSE UNCHANGED <<retryAfter, trace>>
    /\ pc' = IF Get(rt, "backupstate", "") # _get_snapshot_name
             THEN "create_command" ELSE "create_check_after"
    /\ UNCHANGED <<snapOp, snapshot_incremental, serverStatus, taskState,
                   server, imageListed, backupCalls, rebuildCalls,
                   snapInvocations, snapOutcome, rt>>
    /\ UNCHANGED otherThanSnapshot

\* snapshot_create: server.backup(...) or server.create_image(...)
CreateCommand ==
    /\ pc = "create_command"
    /\ trace' = Append(trace, IF snapshot_incremental
                              THEN "server.create_image" ELSE "server.backup")
    /\ backupCalls' = backupCalls + 1
    /\ \E accepted \in Answers :
        IF accepted
        THEN /\ taskState' = "image_snapshot"
             /\ imageListed' \in {imageListed, TRUE}
             /\ pc' = "create_set_marker"
             /\ UNCHANGED snapOutcome
        ELSE /\ Raise("NonRecoverableError")
             /\ UNCHANGED <<taskState, imageListed>>
    /\ UNCHANGED <<snapOp, snapshot_incremental, serverStatus, server,
                   retryAfter, rebuildCalls, snapInvocations, rt>>
    /\ UNCHANGED otherThanSnapshot

\* snapshot_create: runtime_properties["backupstate"] = snapshot_name
CreateSetMarker ==
    /\ pc = "create_set_marker"
    /\ rt' = Put(rt, "backupstate", _get_snapshot_name)
    /\ pc' = "create_check_after"
    /\ UNCHANGED <<snapOp, snapshot_incremental, serverStatus, taskState,
                   server, imageListed, retryAfter, trace, backupCalls,
                   rebuildCalls, snapInvocations, snapOutcome>>
    /\ UNCHANGED otherThanSnapshot

\* snapshot_create: the second _check_finished_upload, result dropped
CreateCheckAfter ==
    /\ pc = "create_check_after"
    /\ IF IsBusy({"image_uploading"})
       THEN RequestRetry("retry:busy")
       ELSE UNCHANGED <<retryAfter, trace>>
    /\ pc' = "create_done"
    /\ UNCHANGED <<snapOp, snapshot_incremental, serverStatus, taskState,
                   server, imageListed, backupCalls, rebuildCalls,
                   snapInvocations, snapOutcome, rt>>
    /\ UNCHANGED otherThanSnapshot

\* snapshot_create: runtime_properties["backupstate"] = "done", and return
CreateDone ==
    /\ pc = "create_done"
    /\ rt' = Put(rt, "backupstate", "done")
    /\ Return
    /\ UNCHANGED <<snapOp, snapshot_incremental, serverStatus, taskState,
                   server, imageListed, retryAfter, trace, backupCalls,
                   rebuildCalls, snapInvocations>>
    /\ UNCHANGED otherThanSnapshot

\* snapshot_apply: image_id, _ = _get_image(...); if not image_id: raise
ApplyGetImage ==
    /\ pc = "apply_get_image"
    /\ IF ~imageListed
       THEN Raise("NonRecoverableError")
       ELSE pc' = "apply_check_before" /\ UNCHANGED snapOutcome
    /\ UNCHANGED <<snapOp, snapshot_incremental, serverStatus, taskState,
                   server, imageListed, retryAfter, trace, backupCalls,
                   rebuildCalls, snapInvocations, rt>>
    /\ UNCHANGED otherThanSnapshot

\* snapshot_apply: _check_finished_upload(..., ['image_uploading',
\* 'rebuild_spawning']), result dropped, then the test of restorestate
ApplyCheckBefore ==
    /\ pc = "apply_check_before"
    /\ IF IsBusy({"image_uploading", "rebuild_spawning"})
       THEN RequestRetry("retry:busy")
       ELSE UNCHANGED <<retryAfter, trace>>
    /\ pc' = IF Get(rt, "restorestate", "") # _get_snapshot_name
             THEN "apply_stop" ELSE "apply_reget"
    /\ UNCHANGED <<snapOp, snapshot_incremental, serverStatus, taskState,
                   server, imageListed, backupCalls, rebuildCalls,
                   snapInvocations, snapOutcome, rt>>
    /\ UNCHANGED otherThanSnapshot

\* snapshot_apply: _server_stop(nova_client, server) up to its sleep, on the
\* server fetched when the invocation started; its result is dropped
ApplyStop ==
    /\ pc = "apply_stop"
    /\ IF server.task = SERVER_TASK_STATE_POWERING_OFF
       THEN /\ RequestRetry("retry:stop")
            /\ pc' = "apply_rebuild"
            /\ UNCHANGED <<taskState, snapOutcome>>
       ELSE IF server.status # SERVER_STATUS_SHUTOFF
       THEN /\ trace' = Append(trace, "servers.stop")
            /\ UNCHANGED retryAfter
            /\ \E accepted \in Answers :
                IF accepted
                THEN /\ taskState' = SERVER_TASK_STATE_POWERING_OFF
                     /\ pc' = "apply_stop_wait"
                     /\ UNCHANGED snapOutcome
                ELSE /\ Raise("NonRecoverableError")
                     /\ UNCHANGED taskState
       ELSE /\ pc' = "apply_rebuild"
            /\ UNCHANGED <<taskState, snapOutcome, retryAfter, trace>>
    /\ UNCHANGED <<snapOp, snapshot_incremental, serverStatus, server,
                   imageListed, backupCalls, rebuildCalls, snapInvocations, rt>>
    /\ UNCHANGED otherThanSnapshot

\* _server_stop after time.sleep(10): the server is fetched again into the
\* local of _server_stop and a retry is requested unless it is SHUTOFF
ApplyStopWait ==
    /\ pc = "apply_stop_wait"
    /\ IF serverStatus # SERVER_STATUS_SHUTOFF
       THEN RequestRetry("retry:stop")
       ELSE UNCHANGED <<retryAfter, trace>>
    /\ pc' = "apply_rebuild"
    /\ UNCHANGED <<snapOp, snapshot_incremental, serverStatus, taskState,
                   server, imageListed, backupCalls, rebuildCalls,
                   snapInvocations, snapOutcome, rt>>
    /\ UNCHANGED otherThanSnapshot

\* snapshot_apply: server.rebuild(image_id)
ApplyRebuild ==
    /\ pc = "apply_rebuild"
    /\ trace' = Append(trace, "server.rebuild")
    /\ rebuildCalls' = rebuildCalls + 1
    /\ \E accepted \in Answers :
        IF accepted
        THEN /\ taskState' = "rebuilding"
             /\ serverStatus' = "REBUILD"
             /\ pc' = "apply_set_marker"
             /\ UNCHANGED snapOutcome
        ELSE /\ Raise("NonRecoverableError")
             /\ UNCHANGED <<taskState, serverStatus>>
    /\ UNCHANGED <<snapOp, snapshot_incremental, server, imageListed,
                   retryAfter, backupCalls, snapInvocations, rt>>
    /\ UNCHANGED otherThanSnapshot

\* snapshot_apply: runtime_properties["restorestate"] = snapshot_name
ApplySetMarker ==
    /\ pc = "apply_set_marker"
    /\ rt' = Put(rt, "restorestate", _get_snapshot_name)
    /\ pc' = "apply_reget"
    /\ UNCHANGED <<snapOp, snapshot_incremental, serverStatus, taskState,
                   server, imageListed, retryAfter, trace, backupCalls,
                   rebuildCalls, snapInvocations, snapOutcome>>
    /\ UNCHANGED otherThanSnapshot

\* snapshot_apply: server = nova_client.servers.get(server.id)
ApplyReget ==
    /\ pc = "apply_reget"
    /\ server' = [status |-> serverStatus, task |-> taskState]
    /\ pc' = "apply_check_after"
    /\ UNCHANGED <<snapOp, snapshot_incremental, serverStatus, taskState,
                   imageListed, retryAfter, trace, backupCalls, rebuildCalls,
                   snapInvocations, snapOutcome, rt>>
    /\ UNCHANGED otherThanSnapshot

\* snapshot_apply: _check_finished_upload(..., ['rebuild_spawning']), result
\* dropped
ApplyCheckAfter ==
    /\ pc = "apply_check_after"
    /\ IF IsBusy({"rebuild_spawning"})
       THEN RequestRetry("retry:busy")
       ELSE UNCHANGED <<retryAfter, trace>>
    /\ pc' = "apply_start"
    /\ UNCHANGED <<snapOp, snapshot_incremental, serverStatus, taskState,
                   server, imageListed, backupCalls, rebuildCalls,
                   snapInvocations, snapOutcome, rt>>
    /\ UNCHANGED otherThanSnapshot

\* snapshot_apply: _server_start(nova_client, server) up to its sleep
ApplyStart ==
    /\ pc = "apply_start"
    /\ IF server.status # SERVER_STATUS_ACTIVE
       THEN /\ trace' = Append(trace, "servers.start")
            /\ \E accepted \in Answers :
                IF accepted
                THEN /\ taskState' = SERVER_TASK_STATE_POWERING_ON
                     /\ pc' = "apply_start_wait"
                     /\ UNCHANGED snapOutcome
                ELSE /\ Raise("NonRecoverableError")
                     /\ UNCHANGED taskState
       ELSE /\ pc' = "apply_done"
            /\ UNCHANGED <<taskState, snapOutcome, trace>>
    /\ UNCHANGED <<snapOp, snapshot_incremental, serverStatus, server,
                   imageListed, retryAfter, backupCalls, rebuildCalls,
                   snapInvocations, rt>>
    /\ UNCHANGED otherThanSnapshot

\* _server_start after time.sleep(10): the server is fetched again and a
\* retry is requested unless its status is SHUTOFF
ApplyStartWait ==
    /\ pc = "apply_start_wait"
    /\ IF serverStatus # SERVER_STATUS_SHUTOFF
       THEN RequestRetry("retry:start")
       ELSE UNCHANGED <<retryAfter, trace>>
    /\ pc' = "apply_done"
    /\ UNCHANGED <<snapOp, snapshot_incremental, serverStatus, taskState,
                   server, imageListed, backupCalls, rebuildCalls,
                   snapInvocations, snapOutcome, rt>>
    /\ UNCHANGED otherThanSnapshot

\* snapshot_apply: runtime_properties["restorestate"] = "done", and return
ApplyDone ==
    /\ pc = "apply_done"
    /\ rt' = Put(rt, "restorestate", "done")
    /\ Return
    /\ UNCHANGED <<snapOp, snapshot_incremental, serverStatus, taskState,
                   server, imageListed, retryAfter, trace, backupCalls,
                   rebuildCalls, snapInvocations>>
    /\ UNCHANGED otherThanSnapshot

\* the provider carries the task it was given one stage further
NovaProgress ==
    /\ taskState # ""
    /\ CASE taskState = "image_snapshot" ->
                /\ taskState' = "image_uploading"
                /\ imageListed' = TRUE
                /\ UNCHANGED serverStatus
         [] taskState = "image_uploading" ->
                /\ taskState' = ""
                /\ UNCHANGED <<serverStatus, imageListed>>
         [] taskState = SERVER_TASK_STATE_POWERING_OFF ->
                /\ taskState' = ""
                /\ serverStatus' = SERVER_STATUS_SHUTOFF
                /\ UNCHANGED imageListed
         [] taskState = SERVER_TASK_STATE_POWERING_ON ->
                /\ taskState' = ""
                /\ serverStatus' = SERVER_STATUS_ACTIVE
                /\ UNCHANGED imageListed
         [] taskState = "rebuilding" ->
                /\ taskState' = "rebuild_spawning"
                /\ UNCHANGED <<serverStatus, imageListed>>
         [] taskState = "rebuild_spawning" ->
                /\ taskState' = ""
                /\ serverStatus' \in {SERVER_STATUS_ACTIVE,
                                      SERVER_STATUS_SHUTOFF}
                /\ UNCHANGED imageListed
    /\ UNCHANGED <<snapOp, snapshot_incremental, pc, server, retryAfter,
                   trace, backupCalls, rebuildCalls, snapInvocations,
                   snapOutcome, rt>>
    /\ UNCHANGED otherThanSnapshot

NextSnapshot ==
    \/ SnapshotInvoke
    \/ CreateGetImage \/ CreateCheckBefore \/ CreateCommand
    \/ CreateSetMarker \/ CreateCheckAfter \/ CreateDone
    \/ ApplyGetImage \/ ApplyCheckBefore \/ ApplyStop \/ ApplyStopWait
    \/ ApplyRebuild \/ ApplySetMarker \/ ApplyReget \/ ApplyCheckAfter
    \/ ApplyStart \/ ApplyStartWait \/ ApplyDone
    \/ NovaProgress

SpecSnapshot == InitSnapshot /\ [][NextSnapshot]_vars

\* ------------------------------------------------------------------------
\* Properties of snapshot_create and snapshot_apply (SpecSnapshot)
\* ------------------------------------------------------------------------
SnapshotCommands == {"server.backup", "server.create_image", "server.rebuild"}

MarkerKey == IF snapOp = "create" THEN "backupstate" ELSE "restorestate"

\* C7  Snapshot resume safety: once snapshot_create has issued the backup (or
\* create-image) command and asked for a retry, the stored backupstate names
\* the attempt, so that the re-invocation sees it was started; no
\* re-invocation ends in an error; and the command is issued at most once
\* over all the invocations.
C7_SnapshotResumeSafety ==
    snapOp = "create" =>
        /\ backupCalls <= 1
        /\ (pc = "idle" /\ snapOutcome = "retry" /\ backupCalls >= 1) =>
               Get(rt, "backupstate", "") = _get_snapshot_name
        /\ (pc = "idle" /\ snapInvocations >= 2 /\ backupCalls >= 1) =>
               snapOutcome \in {"ok", "retry"}

\* C8  Marker before command: whenever an invocation of snapshot_create or
\* snapshot_apply has issued its backup, create-image or rebuild command
\* and is still running, the marker (backupstate / restorestate) already
\* holds the snapshot name.
C8_MarkerBeforeCommand ==
    (pc # "idle" /\ Range(trace) \cap SnapshotCommands # {}) =>
        Get(rt, MarkerKey, "") = _get_snapshot_name

\* C9  Snapshot busy gate: an invocation that saw the task state in the busy
\* set has asked for a retry after 30 seconds, and issues no backup,
\* create-image, stop or rebuild command after that.
C9_BusyGate ==
    \A i \in DOMAIN trace :
        trace[i] = "retry:busy" =>
            /\ retryAfter = RetryDelay
            /\ \A j \in DOMAIN trace :
                   j > i => trace[j] \notin
                       {"server.backup", "server.create_image",
                        "servers.stop", "server.rebuild"}

\* ------------------------------------------------------------------------
\* SpecAttach: attach_volume and detach_volume of one volume and one server,
\* provider call by provider call, beside a provider that moves on by itself.
\* cinder_plugin.volume is outside the sources at hand: get_attachment and
\* wait_until_status follow the description of the attach sequence.
\* ------------------------------------------------------------------------
VOLUME_STATUS_AVAILABLE == "available"
VOLUME_STATUS_IN_USE == "in-use"
status_attempts == 2

\* volume.get_attachment(cinder_client, volume_id, server_id): the attachment
\* record of the pair, or nothing
get_attachment == IF attachmentListed THEN "found" ELSE "none"

\* one pass of the loop of volume.wait_until_status(..., status, num_tries):
\* "reached" when the volume has the status, "exhausted" when this was the
\* last try, "again" otherwise
wait_until_status(status, num_tries) ==
    IF volumeStatus = status THEN "reached"
    ELSE IF tries + 1 >= num_tries THEN "exhausted" ELSE "again"

\* attach_volume: `if not isinstance(e, NonRecoverableError)`
ShouldCompensateNever(e) == FALSE

ShouldCompensate(e) == e # "NonRecoverableError"

Called(call) == calls' = Append(calls, call)

EndOperation(outcome) ==
    /\ attachPc' = "idle"
    /\ attachOutcome' = outcome
    /\ wrapped' = "none"

\* attach_volume's `except Exception as e`: clean up, unless e is
\* non-recoverable, and raise e again
Except(e) ==
    /\ raised' = e
    /\ IF ShouldCompensate(e)
       THEN /\ attachPc' = "detach_lookup"
            /\ UNCHANGED <<attachOutcome, wrapped>>
       ELSE EndOperation(e)

\* _detach_volume has returned: detach_volume is done, attach_volume raises
\* again what it caught
DetachReturns ==
    EndOperation(IF attachOp = "attach" THEN raised ELSE "ok")

\* _detach_volume raises e: _prepare_attach_volume_to_be_repeated catches it
\* as its own e and raises NonRecoverableError(e), detach_volume lets it pass
DetachRaises(e) ==
    /\ attachPc' = "idle"
    /\ attachOutcome' = IF attachOp = "attach" THEN "NonRecoverableError" ELSE e
    /\ wrapped' = IF attachOp = "attach" THEN "clean-up error" ELSE "none"

InitAttach ==
    /\ relationshipExternal \in BOOLEAN
    /\ device \in {"auto", "/dev/vdb"}
    /\ attachOp \in {"attach", "detach"}
    /\ attachPc = "idle"
    /\ volumeStatus \in {VOLUME_STATUS_AVAILABLE, VOLUME_STATUS_IN_USE}
    /\ attachmentListed \in BOOLEAN
    /\ volumeStatus = VOLUME_STATUS_AVAILABLE => ~attachmentListed
    /\ tries = 0
    /\ raised = "none"
    /\ calls = <<>>
    /\ deviceName = ""
    /\ attachInvocations = 0
    /\ attachOutcome = "none"
    /\ wrapped = "none"
    /\ detachCalls = 0
    /\ NicsIdle
    /\ LifeIdle
    /\ SnapIdle
    /\ PowerArgsIdle
    /\ ValidateIdle
    /\ ResolveIdle
    /\ PayloadIdle
    /\ SgIdle
    /\ ErrorIdle
    /\ FipIdle
    /\ ExtNicIdle

\* attach_volume up to create_server_volume: for an external relationship
\* only the attachment is looked up
AttachVolume ==
    /\ attachOp = "attach"
    /\ attachPc = "idle"
    /\ attachOutcome \in {"none", "RecoverableError", "ProviderError"}
    /\ attachInvocations < MaxAttachInvocations
    /\ attachInvocations' = attachInvocations + 1
    /\ raised' = "none"
    /\ tries' = 0
    /\ IF relationshipExternal
       THEN \E answers \in BOOLEAN :
            IF answers
            THEN /\ calls' = <<"get_attachment:" \o get_attachment>>
                 /\ EndOperation(IF get_attachment = "found"
                                 THEN "ok" ELSE "NonRecoverableError")
            ELSE /\ calls' = <<"get_attachment:error">>
                 /\ EndOperation("ProviderError")
       ELSE /\ calls' = <<>>
            /\ attachPc' = "create_server_volume"
            /\ UNCHANGED <<attachOutcome, wrapped>>
    /\ UNCHANGED <<relationshipExternal, device, attachOp, volumeStatus,
                   attachmentListed, deviceName>>
    /\ UNCHANGED detachCalls
    /\ UNCHANGED otherThanAttach

\* nova_client.volumes.create_server_volume(server_id, volume_id, device),
\* outside the try.  nova takes it for an available volume; or refuses it
\* with a code that _re_raise makes a NonRecoverableError; or the call fails
\* in another way (a server error, a lost connection) with the request
\* taken or not
CreateServerVolume ==
    /\ attachPc = "create_server_volume"
    /\ \E answer \in IF volumeStatus = VOLUME_STATUS_AVAILABLE
                     THEN {"accepted", "refused", "failed", "failed, taken"}
                     ELSE {"refused", "failed"} :
        CASE answer = "accepted" ->
                /\ Called("create_server_volume")
                /\ volumeStatus' = "attaching"
                /\ attachPc' = "wait_in_use"
                /\ UNCHANGED <<attachOutcome, wrapped>>
          [] answer = "refused" ->
                /\ Called("create_server_volume:error")
                /\ EndOperation("NonRecoverableError")
                /\ UNCHANGED volumeStatus
          [] answer \in {"failed", "failed, taken"} ->
                /\ Called("create_server_volume:failed")
                /\ EndOperation("ProviderError")
                /\ volumeStatus' = IF answer = "failed, taken"
                                   THEN "attaching" ELSE volumeStatus
    /\ UNCHANGED <<relationshipExternal, device, attachOp, attachmentListed,
                   tries, raised, deviceName, attachInvocations>>
    /\ UNCHANGED detachCalls
    /\ UNCHANGED otherThanAttach

\* attach_volume: volume.wait_until_status(status=VOLUME_STATUS_IN_USE, ...)
\* one status read at a time, and `if not wait_succeeded: raise
\* RecoverableError`
WaitInUse ==
    /\ attachPc = "wait_in_use"
    /\ \E answers \in BOOLEAN :
        IF ~answers
        THEN /\ Called("volumes.get:error")
             /\ Except("ProviderError")
             /\ tries' = 0
        ELSE LET result == wait_until_status(VOLUME_STATUS_IN_USE,
                                             status_attempts)
             IN  CASE result = "reached" ->
                        /\ Called("wait_until_status:reached")
                        /\ attachPc' = "device_name"
                        /\ tries' = 0
                        /\ UNCHANGED <<raised, attachOutcome, wrapped>>
                   [] result = "exhausted" ->
                        /\ Called("wait_until_status:exhausted")
                        /\ Except("RecoverableError")
                        /\ tries' = 0
                   [] result = "again" ->
                        /\ tries' = tries + 1
                        /\ UNCHANGED <<calls, attachPc, raised, attachOutcome,
                                    wrapped>>
    /\ UNCHANGED <<relationshipExternal, device, attachOp, volumeStatus,
                   attachmentListed, deviceName, attachInvocations>>
    /\ UNCHANGED detachCalls
    /\ UNCHANGED otherThanAttach

\* attach_volume: `if device == 'auto'`, the device name of the attachment
\* becomes the volume's device_name runtime property
DeviceName ==
    /\ attachPc = "device_name"
    /\ IF device = "auto"
       THEN \E answers \in BOOLEAN :
            IF answers /\ get_attachment = "found"
            THEN /\ Called("get_attachment:found")
                 /\ deviceName' = "/dev/vdc"
                 /\ EndOperation("ok")
                 /\ UNCHANGED raised
            ELSE /\ Called("get_attachment:error")
                 /\ Except(IF answers THEN "TypeError" ELSE "ProviderError")
                 /\ UNCHANGED deviceName
       ELSE /\ EndOperation("ok")
            /\ UNCHANGED <<calls, raised, deviceName>>
    /\ UNCHANGED <<relationshipExternal, device, attachOp, volumeStatus,
                   attachmentListed, tries, attachInvocations>>
    /\ UNCHANGED detachCalls
    /\ UNCHANGED otherThanAttach

\* detach_volume up to _detach_volume, run the first time, again after a
\* failure that is retried, or once more after it returned: nothing to do
\* for an external relationship
DetachVolume ==
    /\ attachOp = "detach"
    /\ attachPc = "idle"
    /\ attachOutcome \in {"none", "ok", "ProviderError"}
    /\ attachInvocations < MaxAttachInvocations
    /\ attachInvocations' = attachInvocations + 1
    /\ calls' = <<>>
    /\ IF relationshipExternal
       THEN EndOperation("ok")
       ELSE attachPc' = "detach_lookup" /\ UNCHANGED <<attachOutcome, wrapped>>
    /\ UNCHANGED <<relationshipExternal, device, attachOp, volumeStatus,
                   attachmentListed, tries, raised, deviceName>>
    /\ UNCHANGED detachCalls
    /\ UNCHANGED otherThanAttach

\* _detach_volume: attachment = volume.get_attachment(...); `if attachment`
DetachLookup ==
    /\ attachPc = "detach_lookup"
    /\ \E answers \in BOOLEAN :
        IF ~answers
        THEN /\ Called("get_attachment:error")
             /\ DetachRaises("ProviderError")
        ELSE /\ Called("get_attachment:" \o get_attachment)
             /\ IF get_attachment = "found"
                THEN attachPc' = "delete_server_volume"
                     /\ UNCHANGED <<attachOutcome, wrapped>>
                ELSE DetachReturns
    /\ UNCHANGED <<relationshipExternal, device, attachOp, volumeStatus,
                   attachmentListed, tries, raised, deviceName,
                   attachInvocations>>
    /\ UNCHANGED detachCalls
    /\ UNCHANGED otherThanAttach

\* _detach_volume: nova_client.volumes.delete_server_volume(server_id,
\* attachment['id'])
DeleteServerVolume ==
    /\ attachPc = "delete_server_volume"
    /\ detachCalls' = detachCalls + 1
    /\ \E accepted \in BOOLEAN :
        IF accepted
        THEN /\ Called("delete_server_volume")
             /\ volumeStatus' = "detaching"
             /\ attachPc' = "wait_available"
             /\ UNCHANGED <<attachOutcome, wrapped>>
        ELSE /\ Called("delete_server_volume:error")
             /\ DetachRaises("NonRecoverableError")
             /\ UNCHANGED volumeStatus
    /\ UNCHANGED <<relationshipExternal, device, attachOp, attachmentListed,
                   tries, raised, deviceName, attachInvocations>>
    /\ UNCHANGED otherThanAttach

\* _detach_volume: volume.wait_until_status(status=VOLUME_STATUS_AVAILABLE,
\* ...), whose result is not looked at
WaitAvailable ==
    /\ attachPc = "wait_available"
    /\ \E answers \in BOOLEAN :
        IF ~answers
        THEN /\ Called("volumes.get:error")
             /\ DetachRaises("ProviderError")
             /\ tries' = 0
        ELSE LET result == wait_until_status(VOLUME_STATUS_AVAILABLE,
                                             status_attempts)
             IN  IF result = "again"
                 THEN /\ tries' = tries + 1
                      /\ UNCHANGED <<calls, attachPc, attachOutcome, wrapped>>
                 ELSE /\ Called("wait_until_status:" \o result)
                      /\ DetachReturns
                      /\ tries' = 0
    /\ UNCHANGED <<relationshipExternal, device, attachOp, volumeStatus,
                   attachmentListed, raised, deviceName, attachInvocations>>
    /\ UNCHANGED detachCalls
    /\ UNCHANGED otherThanAttach

\* the provider carries an attach or a detach one stage further: the
\* attachment record appears, the volume becomes in-use, or available again
CinderProgress ==
    /\ \/ /\ volumeStatus = "attaching"
          /\ ~attachmentListed
          /\ attachmentListed' = TRUE
          /\ UNCHANGED volumeStatus
       \/ /\ volumeStatus = "attaching"
          /\ attachmentListed' = TRUE
          /\ volumeStatus' = VOLUME_STATUS_IN_USE
       \/ /\ volumeStatus = "detaching"
          /\ attachmentListed' = FALSE
          /\ volumeStatus' = VOLUME_STATUS_AVAILABLE
    /\ UNCHANGED <<relationshipExternal, device, attachOp, attachPc, tries,
                   raised, calls, deviceName, attachInvocations,
                   attachOutcome, wrapped>>
    /\ UNCHANGED detachCalls
    /\ UNCHANGED otherThanAttach

NextAttach ==
    \/ AttachVolume \/ CreateServerVolume \/ WaitInUse \/ DeviceName
    \/ DetachVolume \/ DetachLookup \/ DeleteServerVolume \/ WaitAvailable
    \/ CinderProgress

SpecAttach == InitAttach /\ [][NextAttach]_vars

\* ------------------------------------------------------------------------
\* Properties of attach_volume (SpecAttach)
\* ------------------------------------------------------------------------
\* an invocation of attach_volume has ended whose attach command was taken
\* and whose wait for in-use ran out of tries
AttachTimedOut ==
    /\ attachOp = "attach"
    /\ attachPc = "idle"
    /\ raised = "RecoverableError"

DetachCommands ==
    Count(calls, "delete_server_volume")
        + Count(calls, "delete_server_volume:error")

AttachmentLookups ==
    Count(calls, "get_attachment:found") + Count(calls, "get_attachment:none")
        + Count(calls, "get_attachment:error")

CleanupRaised ==
    {"get_attachment:error", "delete_server_volume:error", "volumes.get:error"}
        \cap Range(calls) # {}

\* C10  Attach rollback: when the attach command was taken and the wait for
\* in-use ran out of tries, exactly one detach command has been issued and
\* the invocation ends with the recoverable error of the wait.
C10_AttachRollback ==
    AttachTimedOut =>
        /\ DetachCommands = 1
        /\ attachOutcome = "RecoverableError"

\* C10 as amended: when the attach command was taken and the wait for in-use
\* ran out of tries, the attachment is looked up once; one detach command is
\* issued when it is found and none when it is not; the invocation ends with
\* the recoverable error of the wait when the clean-up returns and with a
\* non-recoverable error when the clean-up raises.
C10_AttachRollbackAmended ==
    AttachTimedOut =>
        /\ AttachmentLookups = 1
        /\ DetachCommands =
               (IF "get_attachment:found" \in Range(calls) THEN 1 ELSE 0)
        /\ attachOutcome = IF CleanupRaised THEN "NonRecoverableError"
                           ELSE "RecoverableError"

C10_Witness ==
    /\ AttachTimedOut
    /\ calls = <<"create_server_volume", "wait_until_status:exhausted",
                 "get_attachment:found", "delete_server_volume",
                 "wait_until_status:reached">>
    /\ attachOutcome = "RecoverableError"
    /\ volumeStatus = VOLUME_STATUS_AVAILABLE

\* an invocation of attach_volume on a relationship that is not external has
\* ended in an error
AttachFailed ==
    /\ attachOp = "attach"
    /\ attachPc = "idle"
    /\ ~relationshipExternal
    /\ attachOutcome \notin {"none", "ok"}

FailureEntries ==
    {"create_server_volume:error", "create_server_volume:failed",
     "volumes.get:error", "wait_until_status:exhausted",
     "get_attachment:error"}

\* where the failure of the attach sequence is in calls, and the calls of
\* the clean-up that follow it
FailureIndex ==
    CHOOSE i \in DOMAIN calls :
        /\ calls[i] \in FailureEntries
        /\ \A j \in 1..(i - 1) : calls[j] \notin FailureEntries

CleanupCalls == SubSeq(calls, FailureIndex + 1, Len(calls))

\* the error the attach sequence failed with
AttachFailure ==
    CASE calls[FailureIndex] = "create_server_volume:error" ->
             "NonRecoverableError"
      [] calls[FailureIndex] = "create_server_volume:failed" -> "ProviderError"
      [] OTHER -> raised

CleanupFailed ==
    {"get_attachment:error", "delete_server_volume:error", "volumes.get:error"}
        \cap Range(CleanupCalls) # {}

\* C11  Attach compensation rule: when attach_volume fails in the attach
\* command, the wait for in-use or the device-name look-up with an error
\* that is not a NonRecoverableError, the clean-up has run (one look-up of
\* the attachment, and the detach command if it was found) and, unless the
\* clean-up failed, the invocation ends with the error of the failure; when
\* it fails with a NonRecoverableError no clean-up has run.
C11_AttachCompensation ==
    AttachFailed =>
        IF AttachFailure = "NonRecoverableError"
        THEN CleanupCalls = <<>>
        ELSE /\ Count(CleanupCalls, "get_attachment:found")
                    + Count(CleanupCalls, "get_attachment:none")
                    + Count(CleanupCalls, "get_attachment:error") = 1
             /\ "get_attachment:found" \in Range(CleanupCalls) =>
                    Count(CleanupCalls, "delete_server_volume")
                        + Count(CleanupCalls, "delete_server_volume:error") = 1
             /\ ~CleanupFailed => attachOutcome = AttachFailure

\* C12  When the clean-up after a failed attach fails, attach_volume ends
\* with a NonRecoverableError that holds the error of the attach failure.
C12_CleanupFailureCarriesOriginal ==
    (AttachFailed /\ AttachFailure # "NonRecoverableError" /\ CleanupFailed) =>
        /\ attachOutcome = "NonRecoverableError"
        /\ wrapped = "attach error"

\* an invocation of detach_volume on a relationship that is not external has
\* ended
DetachEnded ==
    /\ attachOp = "detach"
    /\ attachPc = "idle"
    /\ ~relationshipExternal
    /\ attachOutcome # "none"

\* C13  Detach is idempotent: a detach that finds no attachment returns
\* without a detach command; and once a detach that issued the command has
\* returned, a further detach issues no detach command.
C13_DetachIdempotent ==
    /\ [](DetachEnded /\ "get_attachment:none" \in Range(calls) =>
              attachOutcome = "ok" /\ DetachCommands = 0)
    /\ [][(attachOp = "detach" /\ attachOutcome = "ok" /\ detachCalls >= 1) =>
              detachCalls' = detachCalls]_vars

\* C14  Whenever detach returns after it issued the detach command, the last
\* status it read of the volume is available.
C14_DetachReachesAvailable ==
    (DetachEnded /\ attachOutcome = "ok"
        /\ "delete_server_volume" \in Range(calls)) =>
        calls[Len(calls)] = "wait_until_status:reached"

\* ------------------------------------------------------------------------
\* SpecPower: stop, start and reboot of a server, beside a provider that
\* moves on by itself.  The operations run on the variables of the server
\* operations; snapOp names the one that runs.
\* ------------------------------------------------------------------------
SERVER_STATUS_BUILD == "BUILD"
SERVER_STATUS_ERROR == "ERROR"
SERVER_STATUS_REBOOT == "REBOOT"
SERVER_STATUS_HARD_REBOOT == "HARD_REBOOT"
SERVER_STATUS_UNKNOWN == "UNKNOWN"

PowerStatuses ==
    {SERVER_STATUS_ACTIVE, SERVER_STATUS_BUILD, SERVER_STATUS_SHUTOFF,
     SERVER_STATUS_ERROR, SERVER_STATUS_REBOOT, SERVER_STATUS_UNKNOWN,
     "SUSPENDED"}

\* the variables of the snapshot operations that stop, start and reboot do
\* not use
snapshotOnly == <<snapOp, snapshot_incremental, imageListed, backupCalls,
                  rebuildCalls>>

\* nova takes a command on a server without a task whose status allows it,
\* and may refuse it with 409 Conflict otherwise
PowerAnswers(statuses) ==
    IF taskState = "" /\ serverStatus \in statuses THEN {TRUE} ELSE BOOLEAN

\* the invocation ends: returned ("ok"), returned with a retry request
\* stored ("retry"), or raised
PowerEnd(outcome, delay) ==
    /\ pc' = "idle"
    /\ snapOutcome' = outcome
    /\ retryAfter' = delay

\* _server_stop: what it does with the server it is given
StopDecisionIgnoringTask(status, task) ==
    IF status # SERVER_STATUS_SHUTOFF THEN "stop" ELSE "ok"

StopDecision(status, task) ==
    IF task = SERVER_TASK_STATE_POWERING_OFF THEN "retry"
    ELSE IF status # SERVER_STATUS_SHUTOFF THEN "stop"
    ELSE "ok"

\* _server_stop after the sleep: `if server.status != SERVER_STATUS_SHUTOFF`
StopUnsettledNever(status) == FALSE

StopUnsettled(status) == status # SERVER_STATUS_SHUTOFF

\* start, for a server that is not validated as external: "active" for the
\* ACTIVE branch, "start" to issue server.start() and retry, "retry", or
\* "fail" for the NonRecoverableError at the end
StartDecisionNeverActive(status, task) ==
    IF status = SERVER_STATUS_SHUTOFF
       /\ task # SERVER_TASK_STATE_POWERING_ON THEN "start"
    ELSE IF status \in {SERVER_STATUS_BUILD, SERVER_STATUS_ACTIVE}
            \/ task = SERVER_TASK_STATE_POWERING_ON THEN "retry"
    ELSE "fail"

StartDecisionWithoutBuild(status, task) ==
    IF status = SERVER_STATUS_ACTIVE THEN "active"
    ELSE IF status = SERVER_STATUS_SHUTOFF
            /\ task # SERVER_TASK_STATE_POWERING_ON THEN "start"
    ELSE IF task = SERVER_TASK_STATE_POWERING_ON THEN "retry"
    ELSE "fail"

StartDecisionAlwaysRetry(status, task) ==
    IF status = SERVER_STATUS_ACTIVE THEN "active"
    ELSE IF status = SERVER_STATUS_SHUTOFF
            /\ task # SERVER_TASK_STATE_POWERING_ON THEN "start"
    ELSE "retry"

StartDecision(status, task) ==
    IF status = SERVER_STATUS_ACTIVE THEN "active"
    ELSE IF status = SERVER_STATUS_SHUTOFF
            /\ task # SERVER_TASK_STATE_POWERING_ON THEN "start"
    ELSE IF status = SERVER_STATUS_BUILD
            \/ task = SERVER_TASK_STATE_POWERING_ON THEN "retry"
    ELSE "fail"

\* reboot_type.upper()
Upper(type) ==
    CASE type = "soft" -> "SOFT"
      [] type = "HARD" -> "HARD"
      [] type = "warm" -> "WARM"

\* reboot after the server is fetched again: the last branch reads
\* server.state, which a nova server does not have
RebootDecision(status) ==
    IF status \in {SERVER_STATUS_REBOOT, SERVER_STATUS_HARD_REBOOT,
                   SERVER_STATUS_UNKNOWN} THEN "retry"
    ELSE IF status = SERVER_STATUS_ACTIVE THEN "ok"
    ELSE IF status = SERVER_STATUS_ERROR THEN "NonRecoverableError"
    ELSE "AttributeError"

InitPower ==
    /\ snapOp \in {"stop", "start", "reboot"}
    /\ snapshot_incremental = FALSE
    /\ pc = "idle"
    /\ serverStatus \in PowerStatuses
    /\ taskState \in {"", SERVER_TASK_STATE_POWERING_ON,
                      SERVER_TASK_STATE_POWERING_OFF}
    /\ server = [status |-> serverStatus, task |-> taskState]
    /\ imageListed = FALSE
    /\ retryAfter = 0
    /\ trace = <<>>
    /\ backupCalls = 0
    /\ rebuildCalls = 0
    /\ snapInvocations = 0
    /\ snapOutcome = "none"
    /\ start_retry_interval \in {30, 60}
    /\ use_password \in BOOLEAN
    /\ reboot_type \in {"soft", "HARD", "warm"}
    /\ snapOp # "start" => start_retry_interval = 30 /\ use_password = FALSE
    /\ snapOp # "reboot" => reboot_type = "soft"
    /\ ownership \in {"Managed", "External", "ConditionallyCreated"}
    /\ useExternal = (ownership # "Managed")
    /\ createIfMissing = (ownership = "ConditionallyCreated")
    /\ resourceId = IF useExternal THEN "web" ELSE ""
    /\ LET id == IF ownership = "External" THEN "s1" ELSE NewServerId
           name == IF useExternal THEN "web" ELSE "server_dep_inst"
           created == [k \in {OPENSTACK_ID_PROPERTY, OPENSTACK_TYPE_PROPERTY,
                              OPENSTACK_NAME_PROPERTY} |->
                          IF k = OPENSTACK_ID_PROPERTY THEN id
                          ELSE IF k = OPENSTACK_TYPE_PROPERTY
                               THEN SERVER_OPENSTACK_TYPE ELSE name]
       IN  /\ rt = IF ownership = "ConditionallyCreated"
                   THEN Put(created, CONDITIONALLY_CREATED, TRUE)
                   ELSE created
           /\ novaServers = [i \in {id} |-> NovaServer(name, TRUE)]
           /\ preexisting = IF ownership = "External" THEN novaServers
                            ELSE EmptyMap
    /\ phase = "created"
    /\ lastOp = Invocation("create", "ok",
                           IF ownership = "External" THEN <<>>
                           ELSE <<"servers.create">>)
    /\ invocations = 1
    /\ NicsIdle
    /\ AttachIdle
    /\ ValidateIdle
    /\ ResolveIdle
    /\ PayloadIdle
    /\ SgIdle
    /\ ErrorIdle
    /\ FipIdle
    /\ ExtNicIdle

\* the orchestrator invokes stop, the first time or after a retry request.
\* stop: nothing is done for a node with use_external_resource; otherwise
\* server = get_server_by_context(nova_client)
StopInvoke ==
    /\ snapOp = "stop"
    /\ pc = "idle"
    /\ snapOutcome \in {"none", "retry"}
    /\ snapInvocations < MaxPowerInvocations
    /\ snapInvocations' = snapInvocations + 1
    /\ trace' = <<>>
    /\ IF is_external_resource
       THEN /\ PowerEnd("ok", 0)
            /\ UNCHANGED server
       ELSE /\ server' = [status |-> serverStatus, task |-> taskState]
            /\ pc' = "stop_server"
            /\ retryAfter' = 0
            /\ UNCHANGED snapOutcome
    /\ UNCHANGED <<serverStatus, taskState, rt>>
    /\ UNCHANGED snapshotOnly
    /\ UNCHANGED otherThanSnapshot

\* _server_stop(nova_client, server) up to time.sleep(10)
StopServer ==
    /\ pc = "stop_server"
    /\ LET decision == StopDecision(server.status, server.task)
       IN  CASE decision = "retry" ->
                    /\ PowerEnd("retry", RetryDelay)
                    /\ UNCHANGED <<trace, taskState>>
             [] decision = "ok" ->
                    /\ PowerEnd("ok", 0)
                    /\ UNCHANGED <<trace, taskState>>
             [] decision = "stop" ->
                    \E accepted \in PowerAnswers({SERVER_STATUS_ACTIVE,
                                                  SERVER_STATUS_ERROR}) :
                        IF accepted
                        THEN /\ trace' = Append(trace, "servers.stop")
                             /\ taskState' = SERVER_TASK_STATE_POWERING_OFF
                             /\ pc' = "stop_sleep"
                             /\ UNCHANGED <<snapOutcome, retryAfter>>
                        ELSE /\ trace' = Append(trace, "servers.stop:error")
                             /\ PowerEnd("NonRecoverableError", 0)
                             /\ UNCHANGED taskState
    /\ UNCHANGED <<serverStatus, server, snapInvocations, rt>>
    /\ UNCHANGED snapshotOnly
    /\ UNCHANGED otherThanSnapshot

\* _server_stop: time.sleep(10)
StopSleep ==
    /\ pc = "stop_sleep"
    /\ trace' = Append(trace, "sleep:10")
    /\ pc' = "stop_reget"
    /\ UNCHANGED <<serverStatus, taskState, server, retryAfter,
                   snapInvocations, snapOutcome, rt>>
    /\ UNCHANGED snapshotOnly
    /\ UNCHANGED otherThanSnapshot

\* _server_stop: server = nova_client.servers.get(server.id) and the retry
\* request unless the server is SHUTOFF
StopReget ==
    /\ pc = "stop_reget"
    /\ trace' = Append(trace, "servers.get")
    /\ server' = [status |-> serverStatus, task |-> taskState]
    /\ IF StopUnsettled(serverStatus)
       THEN PowerEnd("retry", RetryDelay)
       ELSE PowerEnd("ok", 0)
    /\ UNCHANGED <<serverStatus, taskState, snapInvocations, rt>>
    /\ UNCHANGED snapshotOnly
    /\ UNCHANGED otherThanSnapshot

\* the orchestrator invokes start, the first time or after a retry request:
\* server = get_server_by_context(nova_client)
StartInvocation(counted) ==
    /\ snapOp = "start"
    /\ pc = "idle"
    /\ snapOutcome \in {"none", "retry"}
    /\ snapInvocations' = counted
    /\ trace' = <<>>
    /\ server' = [status |-> serverStatus, task |-> taskState]
    /\ pc' = "start_decide"
    /\ retryAfter' = 0
    /\ UNCHANGED <<serverStatus, taskState, snapOutcome, rt>>
    /\ UNCHANGED snapshotOnly
    /\ UNCHANGED otherThanSnapshot

StartInvoke ==
    /\ snapInvocations < MaxPowerInvocations
    /\ StartInvocation(snapInvocations + 1)

\* the same invocation, made after every retry request however many there
\* were: the count of invocations stops at MaxPowerInvocations
StartReinvoke ==
    StartInvocation(IF snapInvocations < MaxPowerInvocations
                    THEN snapInvocations + 1 ELSE snapInvocations)

\* start from the test of is_external_resource_not_conditionally_created to
\* its end
StartDecide ==
    /\ pc = "start_decide"
    /\ IF is_external_resource_not_conditionally_created(rt)
       THEN /\ IF server.status # SERVER_STATUS_ACTIVE
               THEN PowerEnd("NonRecoverableError", 0)
               ELSE PowerEnd("ok", 0)
            /\ UNCHANGED <<trace, taskState, rt>>
       ELSE LET decision == StartDecision(server.status, server.task)
            IN  CASE decision = "active" ->
                    IF use_password
                    THEN \E password \in {"", "secret"} :
                         /\ trace' = Append(trace, "server.get_password")
                         /\ IF password = ""
                            THEN /\ PowerEnd("retry", start_retry_interval)
                                 /\ UNCHANGED rt
                            ELSE /\ PowerEnd("ok", 0)
                                 /\ rt' = SetNetworkAndIp(
                                        Put(rt, ADMIN_PASSWORD_PROPERTY,
                                            password))
                         /\ UNCHANGED taskState
                    ELSE /\ PowerEnd("ok", 0)
                         /\ rt' = SetNetworkAndIp(rt)
                         /\ UNCHANGED <<trace, taskState>>
                  [] decision = "start" ->
                    \E accepted \in PowerAnswers({SERVER_STATUS_SHUTOFF}) :
                        IF accepted
                        THEN /\ trace' = Append(trace, "server.start")
                             /\ taskState' = SERVER_TASK_STATE_POWERING_ON
                             /\ PowerEnd("retry", start_retry_interval)
                             /\ UNCHANGED rt
                        ELSE /\ trace' = Append(trace, "server.start:error")
                             /\ PowerEnd("NonRecoverableError", 0)
                             /\ UNCHANGED <<taskState, rt>>
                  [] decision = "retry" ->
                    /\ PowerEnd("retry", start_retry_interval)
                    /\ UNCHANGED <<trace, taskState, rt>>
                  [] decision = "fail" ->
                    /\ \E fault \in {"fault", "no fault"} :
                           trace' = Append(trace, fault)
                    /\ PowerEnd("NonRecoverableError", 0)
                    /\ UNCHANGED <<taskState, rt>>
    /\ UNCHANGED <<serverStatus, server, snapInvocations>>
    /\ UNCHANGED snapshotOnly
    /\ UNCHANGED otherThanSnapshot

\* reboot: ctx.operation.retry_number == 0
IsFirstInvocationAlways(retry_number) == TRUE

IsFirstInvocation(retry_number) == retry_number = 0

\* the orchestrator invokes reboot, the first time (retry_number 0) or after
\* a retry request: server = get_server_by_context(nova_client), and on the
\* first invocation the test of reboot_type
RebootInvoke ==
    /\ snapOp = "reboot"
    /\ pc = "idle"
    /\ snapOutcome \in {"none", "retry"}
    /\ snapInvocations < MaxPowerInvocations
    /\ snapInvocations' = snapInvocations + 1
    /\ trace' = <<>>
    /\ server' = [status |-> serverStatus, task |-> taskState]
    /\ LET retry_number == snapInvocations
       IN  IF IsFirstInvocation(retry_number)
           THEN IF Upper(reboot_type) \notin {"HARD", "SOFT"}
                THEN PowerEnd("NonRecoverableError", 0)
                ELSE /\ pc' = "reboot_command"
                     /\ retryAfter' = 0
                     /\ UNCHANGED snapOutcome
           ELSE /\ pc' = "reboot_reget"
                /\ retryAfter' = 0
                /\ UNCHANGED snapOutcome
    /\ UNCHANGED <<serverStatus, taskState, rt>>
    /\ UNCHANGED snapshotOnly
    /\ UNCHANGED otherThanSnapshot

\* reboot: nova_client.servers.reboot(server, reboot_type.upper())
RebootCommand ==
    /\ pc = "reboot_command"
    /\ \E accepted \in PowerAnswers({SERVER_STATUS_ACTIVE}) :
        IF accepted
        THEN /\ trace' = Append(trace, "servers.reboot")
             /\ taskState' = "rebooting"
             /\ serverStatus' = IF Upper(reboot_type) = "HARD"
                                THEN SERVER_STATUS_HARD_REBOOT
                                ELSE SERVER_STATUS_REBOOT
             /\ pc' = "reboot_reget"
             /\ UNCHANGED <<snapOutcome, retryAfter>>
        ELSE /\ trace' = Append(trace, "servers.reboot:error")
             /\ PowerEnd("NonRecoverableError", 0)
             /\ UNCHANGED <<taskState, serverStatus>>
    /\ UNCHANGED <<server, snapInvocations, rt>>
    /\ UNCHANGED snapshotOnly
    /\ UNCHANGED otherThanSnapshot

\* reboot: server = nova_client.servers.get(server.id) and the branches on
\* server.status
RebootReget ==
    /\ pc = "reboot_reget"
    /\ trace' = Append(trace, "servers.get")
    /\ server' = [status |-> serverStatus, task |-> taskState]
    /\ LET decision == RebootDecision(serverStatus)
       IN  IF decision = "retry"
           THEN PowerEnd("retry", RetryDelay)
           ELSE PowerEnd(decision, 0)
    /\ UNCHANGED <<serverStatus, taskState, snapInvocations, rt>>
    /\ UNCHANGED snapshotOnly
    /\ UNCHANGED otherThanSnapshot

\* the provider carries the task of the server one stage further, or ends
\* the build of the server
NovaPowerProgress ==
    /\ \/ /\ taskState = SERVER_TASK_STATE_POWERING_OFF
          /\ taskState' = ""
          /\ serverStatus' = SERVER_STATUS_SHUTOFF
       \/ /\ taskState = SERVER_TASK_STATE_POWERING_ON
          /\ taskState' = ""
          /\ serverStatus' = SERVER_STATUS_ACTIVE
       \/ /\ taskState = "rebooting"
          /\ taskState' = ""
          /\ serverStatus' \in {SERVER_STATUS_ACTIVE, SERVER_STATUS_ERROR,
                                SERVER_STATUS_SHUTOFF}
       \/ /\ taskState = ""
          /\ serverStatus = SERVER_STATUS_BUILD
          /\ serverStatus' \in {SERVER_STATUS_ACTIVE, SERVER_STATUS_ERROR}
          /\ UNCHANGED taskState
    /\ UNCHANGED <<pc, server, retryAfter, trace, snapInvocations,
                   snapOutcome, rt>>
    /\ UNCHANGED snapshotOnly
    /\ UNCHANGED otherThanSnapshot

NextPower ==
    \/ StopInvoke \/ StopServer \/ StopSleep \/ StopReget
    \/ StartInvoke \/ StartDecide
    \/ RebootInvoke \/ RebootCommand \/ RebootReget
    \/ NovaPowerProgress

SpecPower == InitPower /\ [][NextPower]_vars

\* ------------------------------------------------------------------------
\* Properties of stop, start and reboot (SpecPower)
\* ------------------------------------------------------------------------
\* a step of _server_stop, run by stop, on the server it was given
StopDecides == snapOp = "stop" /\ pc = "stop_server" /\ pc' # pc

StopCommands(t) == Count(t, "servers.stop") + Count(t, "servers.stop:error")

\* C15  Stop, the rows without a command: stop that sees the server SHUTOFF
\* with a task state other than powering-off returns with no provider
\* command; stop that sees the task state powering-off asks for a retry
\* after 30 seconds, with no provider command either.
C15_StopWithoutCommand ==
    [][StopDecides =>
        /\ (server.status = "SHUTOFF" /\ server.task # "powering-off") =>
               /\ pc' = "idle" /\ snapOutcome' = "ok"
               /\ retryAfter' = 0 /\ trace' = <<>>
        /\ server.task = "powering-off" =>
               /\ pc' = "idle" /\ snapOutcome' = "retry"
               /\ retryAfter' = 30 /\ trace' = <<>>]_vars

C15_Witness ==
    /\ snapOp = "stop" /\ pc = "idle" /\ snapInvocations = 1
    /\ server = [status |-> "ACTIVE", task |-> "powering-off"]
    /\ snapOutcome = "retry" /\ retryAfter = 30 /\ trace = <<>>

\* C16  Stop with a command: stop that sees a server neither SHUTOFF nor
\* powering-off issues the stop command once; when nova took it, the
\* invocation sleeps, then reads the server again, and ends with a retry
\* request of 30 seconds exactly when the status read is not SHUTOFF, and
\* with success otherwise.
C16_StopWithCommand ==
    /\ [][(StopDecides /\ server.status # "SHUTOFF"
              /\ server.task # "powering-off") =>
              StopCommands(trace') = 1]_vars
    /\ []((snapOp = "stop" /\ pc = "idle"
              /\ "servers.stop" \in Range(trace)) =>
              /\ trace = <<"servers.stop", "sleep:10", "servers.get">>
              /\ IF server.status # "SHUTOFF"
                 THEN snapOutcome = "retry" /\ retryAfter = 30
                 ELSE snapOutcome = "ok" /\ retryAfter = 0)

C16_Witness ==
    /\ snapOp = "stop" /\ pc = "idle" /\ snapInvocations = 1
    /\ trace = <<"servers.stop", "sleep:10", "servers.get">>
    /\ server.status = "ACTIVE"
    /\ snapOutcome = "retry" /\ retryAfter = 30

\* an invocation of start that did not take the server for an external one
\* has ended; server is what it saw
StartEnded ==
    /\ snapOp = "start" /\ pc = "idle" /\ snapInvocations >= 1
    /\ ~is_external_resource_not_conditionally_created(rt)

StartCommands == Count(trace, "server.start") + Count(trace, "server.start:error")

\* C17  Start of a server that is not ACTIVE: seeing status BUILD or task
\* state powering-on, start asks for a retry after start_retry_interval and
\* issues no command; seeing SHUTOFF with another task state it issues the
\* start command once and, when nova took it, asks for a retry after
\* start_retry_interval.
C17_StartRetryRows ==
    (StartEnded /\ server.status # "ACTIVE") =>
        /\ (server.status = "BUILD" \/ server.task = "powering-on") =>
               /\ snapOutcome = "retry"
               /\ retryAfter = start_retry_interval
               /\ trace = <<>>
        /\ (server.status = "SHUTOFF" /\ server.task # "powering-on") =>
               /\ StartCommands = 1
               /\ "server.start" \in Range(trace) =>
                      /\ snapOutcome = "retry"
                      /\ retryAfter = start_retry_interval

C17_Witness ==
    /\ StartEnded /\ snapInvocations = 1
    /\ server = [status |-> "SHUTOFF", task |-> ""]
    /\ trace = <<"server.start">>
    /\ snapOutcome = "retry" /\ retryAfter = 60
    /\ taskState = "powering-on"

C19_RebootTable ==
    (snapOp = "reboot" /\ pc = "idle" /\ "servers.get" \in Range(trace)) =>
        CASE server.status \in {"REBOOT", "HARD_REBOOT", "UNKNOWN"} ->
                 snapOutcome = "retry" /\ retryAfter = 30
          [] server.status = "ACTIVE" -> snapOutcome = "ok"
          [] OTHER -> snapOutcome = "NonRecoverableError"

\* ------------------------------------------------------------------------
\* Properties of delete's wait (SpecLifecycle)
\* ------------------------------------------------------------------------
\* C20  Delete polling: delete of a managed server issues servers.delete and
\* then reads the server every 5 seconds; it returns at the first read that
\* is answered NotFound; after 120 seconds of reads that found the server
\* (24 reads) it ends with RuntimeError, which is retried, and external_id is
\* still stored; the wait never makes more than 24 reads.
C20_DeletePolling ==
    (lastOp.name = "delete" /\ ~useExternal /\ lastOp.commands # <<>>) =>
        LET commands == lastOp.commands
            found == Count(commands, "servers.get")
            notFound == Count(commands, "servers.get:NotFound")
        IN  /\ commands[1] = "servers.delete"
            /\ Count(commands, "servers.delete") = 1
            /\ found + notFound = Len(commands) - 1
            /\ found + notFound <= 120 \div 5
            /\ lastOp.outcome \in {"ok", "RuntimeError"}
            /\ lastOp.outcome = "ok" =>
                   /\ notFound = 1
                   /\ commands[Len(commands)] = "servers.get:NotFound"
                   /\ OPENSTACK_ID_PROPERTY \notin DOMAIN rt
            /\ lastOp.outcome = "RuntimeError" =>
                   /\ notFound = 0
                   /\ found = 120 \div 5
                   /\ OPENSTACK_ID_PROPERTY \in DOMAIN rt

C20_Witness ==
    /\ lastOp.name = "delete" /\ ~useExternal
    /\ lastOp.outcome = "RuntimeError"
    /\ Len(lastOp.commands) = 25
    /\ rt[OPENSTACK_ID_PROPERTY] = NewServerId
    /\ NewServerId \in DOMAIN novaServers

\* ------------------------------------------------------------------------
\* Properties of use_external_resource, as create calls it (SpecLifecycle).
\* Every create runs on the provider content the deployment started with.
\* ------------------------------------------------------------------------
IdentityKeys ==
    {OPENSTACK_ID_PROPERTY, OPENSTACK_TYPE_PROPERTY, OPENSTACK_NAME_PROPERTY}

\* the lookup by name and then by id, on the id the call looks up, finds no
\* server
FindsNothing(r) ==
    LET resource_id == Get(r, OPENSTACK_ID_PROPERTY, resourceId)
    IN  /\ resource_id # ""
        /\ \A i \in DOMAIN preexisting :
               i # resource_id /\ preexisting[i].name # resource_id

\* runtime properties r2 hold the keys of K as r1 does
SameOn(r1, r2, K) ==
    \A k \in K : /\ k \in DOMAIN r1 <=> k \in DOMAIN r2
                 /\ k \in DOMAIN r1 => r1[k] = r2[k]

\* C22  External-conditional resolution: with use_external_resource and
\* create_if_missing both true and a lookup that finds nothing,
\* use_external_resource does not raise, returns no resource, stores
\* conditionally_created = True and writes none of external_id,
\* external_type and external_name; create goes on as for a managed server.
C22_ConditionalResolution ==
    \A i \in DOMAIN resolutions :
        LET call == resolutions[i]
        IN  (useExternal /\ createIfMissing /\ FindsNothing(call.before)) =>
                /\ ~call.raised
                /\ call.returned = ""
                /\ CONDITIONALLY_CREATED \in DOMAIN call.after
                /\ call.after[CONDITIONALLY_CREATED] = TRUE
                /\ SameOn(call.before, call.after, IdentityKeys)
                /\ ownership = "ConditionallyCreated"

C22_Witness ==
    /\ useExternal /\ createIfMissing
    /\ Len(resolutions) = 1
    /\ FindsNothing(resolutions[1].before)
    /\ preexisting # EmptyMap
    /\ lastOp = Invocation("create", "ok", <<"servers.create">>)

\* C23  External-required resolution: with use_external_resource true,
\* create_if_missing false and a lookup by name and then by id that finds
\* nothing, use_external_resource raises NonRecoverableError and leaves the
\* runtime properties as they were: conditionally_created is not set and no
\* identity field is written; the invocation ends with that error.
C23_RequiredResolution ==
    \A i \in DOMAIN resolutions :
        LET call == resolutions[i]
        IN  (useExternal /\ ~createIfMissing /\ FindsNothing(call.before)) =>
                /\ call.raised
                /\ call.returned = ""
                /\ call.after = call.before
                /\ CONDITIONALLY_CREATED \notin DOMAIN call.after
                /\ {OPENSTACK_TYPE_PROPERTY, OPENSTACK_NAME_PROPERTY}
                       \cap DOMAIN call.after = {}
                /\ lastOp.name = "create" =>
                       /\ lastOp.outcome = "NonRecoverableError"
                       /\ lastOp.commands = <<>>
                       /\ rt = call.after

C23_Witness ==
    /\ useExternal /\ ~createIfMissing
    /\ Len(resolutions) = 1
    /\ FindsNothing(resolutions[1].before)
    /\ resolutions[1].raised
    /\ preexisting # EmptyMap
    /\ lastOp = Invocation("create", "NonRecoverableError", <<>>)

\* C24  Resolve idempotence: when use_external_resource has resolved the
\* server as external and is called again on the same provider content, the
\* second call leaves external_id, external_type, external_name and
\* external_resource as the first call left them, and conditionally_created
\* unset.
C24_ResolveIdempotence ==
    (Len(resolutions) = 2 /\ resolutions[1].returned # "") =>
        /\ SameOn(resolutions[1].after, resolutions[2].after,
                  IdentityKeys \cup {OPENSTACK_RESOURCE_PROPERTY})
        /\ resolutions[2].returned = resolutions[1].returned
        /\ CONDITIONALLY_CREATED \notin DOMAIN resolutions[2].after

\* ------------------------------------------------------------------------
\* SpecValidate: validate_resource on every declaration, provider content,
\* client and quota.  novaServers holds the provider's resources of the
\* validated type, whatever the client.
\* ------------------------------------------------------------------------
MaxQuota == 3
INFINITE_RESOURCE_QUOTA == -1

QuotaChoices == {INFINITE_RESOURCE_QUOTA} \cup (0..MaxQuota)

QuotaAllowsUpToQuota(amount, quota) ==
    amount <= quota \/ quota = INFINITE_RESOURCE_QUOTA

\* the condition under which validate_resource accepts the creation
QuotaAllows(amount, quota) ==
    amount < quota \/ quota = INFINITE_RESOURCE_QUOTA

InitValidate ==
    /\ useExternal \in BOOLEAN
    /\ createIfMissing \in BOOLEAN
    /\ resourceId \in ResourceIdChoices
    /\ preexisting \in PreexistingChoices
    /\ novaServers = preexisting
    /\ rt = EmptyMap
    /\ ownership = "Unresolved"
    /\ phase = "idle"
    /\ lastOp = Invocation("none", "none", <<>>)
    /\ invocations = 0
    /\ sugared_client \in {"nova", "neutron", "cinder"}
    /\ resource_quota \in QuotaChoices
    /\ resource_amount = 0
    /\ validateOutcome = "pending"
    /\ NicsIdle
    /\ SnapIdle
    /\ AttachIdle
    /\ PowerArgsIdle
    /\ ResolveIdle
    /\ PayloadIdle
    /\ SgIdle
    /\ ErrorIdle
    /\ FipIdle
    /\ ExtNicIdle

\* validate_resource(ctx, sugared_client, openstack_type), run by a
\* creation_validation operation under the client's decorator
ValidateResource ==
    /\ validateOutcome = "pending"
    /\ LET r0 == _handle_kw(rt)
           res == _get_resource_by_name_or_id_from_ctx(r0, novaServers)
           amount == Cardinality(DOMAIN novaServers)
       IN  /\ rt' = r0
           /\ IF is_external_resource /\ ~res.raised
              THEN \* the external resource exists
                   /\ validateOutcome' = "ok"
                   /\ lastOp' = Invocation("validate", "ok", <<"lookup">>)
                   /\ UNCHANGED resource_amount
              ELSE IF is_external_resource /\ ~is_create_if_missing
              THEN \* the lookup's error is raised again
                   /\ validateOutcome' = "NonRecoverableError"
                   /\ lastOp' = Invocation("validate", "NonRecoverableError",
                                           <<"lookup", "cosmo_list">>)
                   /\ UNCHANGED resource_amount
              ELSE IF sugared_client = "nova"
              THEN \* no quota check for Nova resources
                   /\ validateOutcome' = "ok"
                   /\ lastOp' = Invocation("validate", "ok",
                                    IF is_external_resource
                                    THEN <<"lookup">> ELSE <<>>)
                   /\ UNCHANGED resource_amount
              ELSE /\ resource_amount' = amount
                   /\ validateOutcome' =
                          IF QuotaAllows(amount, resource_quota)
                          THEN "ok" ELSE "NonRecoverableError"
                   /\ lastOp' = Invocation("validate", validateOutcome',
                                    (IF is_external_resource
                                     THEN <<"lookup">> ELSE <<>>)
                                    \o <<"cosmo_list", "get_quota">>)
    /\ UNCHANGED <<useExternal, createIfMissing, resourceId, novaServers,
                   preexisting, ownership, phase, invocations>>
    /\ UNCHANGED <<sugared_client, resource_quota>>
    /\ UNCHANGED otherThanValidate

NextValidate == ValidateResource

SpecValidate == InitValidate /\ [][NextValidate]_vars

\* ------------------------------------------------------------------------
\* Properties of validate_resource (SpecValidate)
\* ------------------------------------------------------------------------
\* C21  Quota gate: when validate_resource reaches the quota comparison (the
\* resource is to be created and the client is not Nova's), it ends with
\* NonRecoverableError exactly when the quota is not -1 and the number of
\* existing resources of the type is at least the quota.
C21_QuotaGate ==
    (lastOp.name = "validate" /\ "get_quota" \in Range(lastOp.commands)) =>
        /\ validateOutcome \in {"ok", "NonRecoverableError"}
        /\ resource_amount = Cardinality(DOMAIN novaServers)
        /\ validateOutcome = "NonRecoverableError"
               <=> (resource_quota # -1 /\ resource_amount >= resource_quota)

C21_Witness ==
    /\ validateOutcome = "NonRecoverableError"
    /\ "get_quota" \in Range(lastOp.commands)
    /\ resource_amount = 2
    /\ resource_quota = 2
    /\ sugared_client = "neutron"

\* ------------------------------------------------------------------------
\* SpecPayload: create of a managed server, on every declared payload, from
\* the server dictionary to servers.create.  The node declares an image and
\* a flavor, has no boot volume, network, port and server group
\* relationships, and the bootstrap context has no resources prefix.
\* ------------------------------------------------------------------------
MaxPayloadInvocations == 2

\* dict.update
Update(m1, m2) ==
    [k \in DOMAIN m1 \cup DOMAIN m2 |->
        IF k \in DOMAIN m2 THEN m2[k] ELSE m1[k]]

Restrict(m, K) == [k \in DOMAIN m \cap K |-> m[k]]

\* declared security group lists name no group twice
InlineSecurityGroupChoices == {<<>>, <<"agents">>, <<"web">>}

ServerPropertyChoices ==
    {Update(Update(Update(k, g), a), u) :
        k \in {EmptyMap, [x \in {"key_name"} |-> "k1"]},
        g \in {EmptyMap} \cup {[x \in {"security_groups"} |-> l] :
                                  l \in InlineSecurityGroupChoices},
        a \in {EmptyMap, [x \in {"adminPass"} |-> "pw1"]},
        u \in {EmptyMap, [x \in {"user_data"} |-> "#!sh"]}}

ArgsChoices ==
    {EmptyMap, [x \in {"key_name"} |-> "k2"], [x \in {"adminPass"} |-> "pw2"]}

\* _get_keypair_name_by_id(nova_client, key_name): the id of the keypair
\* named key_name, for a keypair the provider has (its id is its name)
_get_keypair_name_by_id(key_name) == key_name

\* get_openstack_id_of_single_connected_node_by_openstack_type(ctx, type,
\* True) on the ids of the related nodes: the id ("" for None), or raised
SingleConnectedId(ids) ==
    IF Len(ids) > 1 THEN [raised |-> TRUE, id |-> ""]
    ELSE IF ids = <<>> THEN [raised |-> FALSE, id |-> ""]
    ELSE [raised |-> FALSE, id |-> ids[1]]

SecurityGroupsAlwaysAppend(srv) ==
    IF agents_security_group # ""
    THEN Put(srv, "security_groups",
             Append(Get(srv, "security_groups", <<>>),
                    agents_security_group))
    ELSE IF Get(srv, "security_groups", <<>>) = <<>>
    THEN Put(srv, "security_groups", securityGroupRels)
    ELSE srv

\* create's security group step
SecurityGroups(srv) ==
    IF agents_security_group # ""
    THEN LET security_groups == Get(srv, "security_groups", <<>>)
         IN  Put(srv, "security_groups",
                 IF agents_security_group \in Range(security_groups)
                 THEN security_groups
                 ELSE Append(security_groups, agents_security_group))
    ELSE IF Get(srv, "security_groups", <<>>) = <<>>
    THEN Put(srv, "security_groups", securityGroupRels)
    ELSE srv

KeypairInlineWins(srv, keypair_id) ==
    IF "key_name" \in DOMAIN srv
    THEN [raised |-> FALSE, server |-> srv]
    ELSE IF keypair_id # ""
    THEN [raised |-> FALSE,
          server |-> Put(srv, "key_name",
                         _get_keypair_name_by_id(keypair_id))]
    ELSE [raised |-> FALSE,
          server |-> Put(srv, "key_name", agents_keypair)]

\* create's server keypair handling: key_name "" stands for None
Keypair(srv, keypair_id) ==
    IF "key_name" \in DOMAIN srv
    THEN IF keypair_id # ""
         THEN [raised |-> TRUE, server |-> srv]
         ELSE [raised |-> FALSE, server |-> srv]
    ELSE IF keypair_id # ""
    THEN [raised |-> FALSE,
          server |-> Put(srv, "key_name",
                         _get_keypair_name_by_id(keypair_id))]
    ELSE [raised |-> FALSE,
          server |-> Put(srv, "key_name", agents_keypair)]

\* userdata.handle_userdata(server): what it may leave in the dictionary
handle_userdata(srv) ==
    {srv, Put(srv, "userdata", "#!mime")}

AssignPayloadUnscrubbed(r, resource_name, payload) ==
    Put(r, resource_name, Update(Get(r, resource_name, EmptyMap), payload))

\* assign_payload_as_runtime_properties(ctx, resource_name, payload)
assign_payload_as_runtime_properties(r, resource_name, payload) ==
    Put(r, resource_name,
        Update(Get(r, resource_name, EmptyMap),
               Restrict(payload, DOMAIN payload \ {"user_data", "adminPass"})))

InitPayload ==
    /\ serverProperty \in ServerPropertyChoices
    /\ args \in ArgsChoices
    /\ agents_security_group \in {"", "agents"}
    /\ agents_keypair \in {"", "agents-key"}
    /\ securityGroupRels \in {<<>>, <<"agents">>, <<"web", "agents">>}
    /\ keypairRels \in {<<>>, <<"kp1">>, <<"kp1", "kp2">>}
    /\ sentServers = <<>>
    /\ payloadInvocations = 0
    /\ payloadOutcome = "none"
    /\ payloadError = "none"
    /\ LifeIdle
    /\ NicsIdle
    /\ SnapIdle
    /\ AttachIdle
    /\ PowerArgsIdle
    /\ ValidateIdle
    /\ ResolveIdle
    /\ SgIdle
    /\ ErrorIdle
    /\ FipIdle
    /\ ExtNicIdle

PayloadEnd(outcome, error) ==
    /\ payloadOutcome' = outcome
    /\ payloadError' = error

\* create(nova_client, neutron_client, args) of a managed server
CreateServer ==
    /\ payloadOutcome \in {"none", "retry"}
    /\ payloadInvocations < MaxPayloadInvocations
    /\ payloadInvocations' = payloadInvocations + 1
    /\ LET r0 == _handle_kw(rt)
           declared == Update(Update(
                           [x \in {"name"} |-> get_resource_id],
                           serverProperty), args)
           withMeta == IF "meta" \in DOMAIN declared THEN declared
                       ELSE Put(declared, "meta", EmptyMap)
           withImage == Put(Put(withMeta, "image", "img"), "flavor", "flv")
           grouped == SecurityGroups(withImage)
           keypair_id == SingleConnectedId(keypairRels)
           keyed == Keypair(grouped, keypair_id.id)
       IN  IF keypair_id.raised
           THEN /\ PayloadEnd("NonRecoverableError", "at most one keypair")
                /\ rt' = r0
                /\ UNCHANGED sentServers
           ELSE IF keyed.raised
           THEN /\ PayloadEnd("NonRecoverableError", "key_name and keypair")
                /\ rt' = r0
                /\ UNCHANGED sentServers
           ELSE \E srv \in handle_userdata(Put(keyed.server, "nics", <<>>)) :
                  /\ sentServers' = Append(sentServers, srv)
                  /\ \E answer \in {"created", "bdm_invalid", "bad_request"} :
                        LET stored == assign_payload_as_runtime_properties(
                                          r0, SERVER_OPENSTACK_TYPE, srv)
                        IN  CASE answer = "created" ->
                                   /\ rt' = Put(Put(Put(stored,
                                              OPENSTACK_ID_PROPERTY,
                                              NewServerId),
                                              OPENSTACK_TYPE_PROPERTY,
                                              SERVER_OPENSTACK_TYPE),
                                              OPENSTACK_NAME_PROPERTY,
                                              srv["name"])
                                   /\ PayloadEnd("ok", "none")
                              [] answer = "bdm_invalid" ->
                                   /\ rt' = stored
                                   /\ PayloadEnd("retry", "none")
                              [] answer = "bad_request" ->
                                   /\ rt' = stored
                                   /\ PayloadEnd("NonRecoverableError",
                                                 "BadRequest")
    /\ UNCHANGED lifeRest
    /\ UNCHANGED <<serverProperty, args, agents_security_group,
                   agents_keypair, securityGroupRels, keypairRels>>
    /\ UNCHANGED otherThanPayload

NextPayload == CreateServer

SpecPayload == InitPayload /\ [][NextPayload]_vars

\* ------------------------------------------------------------------------
\* Properties of the creation payload (SpecPayload)
\* ------------------------------------------------------------------------
\* the server dictionary as declared: the server property under the args
DeclaredServer == Update(serverProperty, args)

\* C25  Keypair conflict: when the declared server dictionary has a key_name
\* and the server is related to a keypair, create ends with
\* NonRecoverableError (the conflict error when there is one keypair) and
\* servers.create is never called.
C25_KeypairConflict ==
    ("key_name" \in DOMAIN DeclaredServer /\ keypairRels # <<>>
        /\ payloadInvocations > 0) =>
        /\ payloadOutcome = "NonRecoverableError"
        /\ Len(keypairRels) = 1 => payloadError = "key_name and keypair"
        /\ sentServers = <<>>

C25_Witness ==
    /\ "key_name" \in DOMAIN serverProperty
    /\ keypairRels = <<"kp1">>
    /\ payloadError = "key_name and keypair"
    /\ sentServers = <<>>

C30_SecretScrubbing ==
    SERVER_OPENSTACK_TYPE \in DOMAIN rt =>
        LET stored == rt[SERVER_OPENSTACK_TYPE]
            sent == sentServers[Len(sentServers)]
        IN  /\ sentServers # <<>>
            /\ "adminPass" \notin DOMAIN stored
            /\ "user_data" \notin DOMAIN stored
            /\ \A k \in DOMAIN sent \ {"adminPass", "user_data"} :
                   k \in DOMAIN stored /\ stored[k] = sent[k]

C30_Witness ==
    /\ payloadInvocations = 2
    /\ payloadOutcome = "ok"
    /\ "adminPass" \in DOMAIN sentServers[2]
    /\ "user_data" \in DOMAIN sentServers[2]
    /\ DOMAIN rt[SERVER_OPENSTACK_TYPE]
           = DOMAIN sentServers[2] \ {"adminPass", "user_data"}

\* ------------------------------------------------------------------------
\* SpecSecurityGroup: connect_security_group and disconnect_security_group of
\* one server and one security group.  The provider applies a command it
\* accepted at once or later; the group's name resolves to the group.
\* ------------------------------------------------------------------------
MaxSgInvocations == 4

\* the target group of the relationship (external_id, external_name), a
\* group of the same name and another id, and a group of another name
security_group_id == "g1"
security_group_name == "web"
GroupName(id) == IF id \in {"g1", "g2"} THEN "web" ELSE "default"
GroupIds == {"g1", "g2", "g3"}

\* is_external_relationship_not_conditionally_created(ctx)
is_external_relationship_not_conditionally_created ==
    sgExternal /\ ~sgConditional

\* is_external_relationship(ctx)
is_external_relationship == sgExternal

GroupMatchesIdOnly(id) == security_group_id = id

\* group_matches of connect_security_group
group_matches(id) ==
    security_group_id = id \/ security_group_name = GroupName(id)

ValidatedAlways(is_connected, groups) == TRUE

\* _validate_security_group_and_server_connection_status does not raise
Validated(is_connected, groups) ==
    is_connected <=> (\E id \in groups : id = security_group_id)

SgCalled(call) == sgCalls' = Append(sgCalls, call)

SgEnd(outcome) ==
    /\ sgOutcome' = outcome
    /\ sgPc' = "idle"
    /\ sgConnected' = (sgConnected \/ (sgOp = "connect" /\ outcome = "ok"))

InitSecurityGroup ==
    /\ sgExternal \in BOOLEAN
    /\ sgConditional \in BOOLEAN
    /\ sgConditional => sgExternal
    /\ serverGroups \in SUBSET GroupIds
    /\ sgPending = {}
    /\ sgOp = "none"
    /\ sgPc = "idle"
    /\ present = FALSE
    /\ sgCalls = <<>>
    /\ sgAdds = 0
    /\ sgConnected = FALSE
    /\ sgInvocations = 0
    /\ sgOutcome = "none"
    /\ NicsIdle
    /\ LifeIdle
    /\ SnapIdle
    /\ AttachIdle
    /\ PowerArgsIdle
    /\ ValidateIdle
    /\ ResolveIdle
    /\ PayloadIdle
    /\ ErrorIdle
    /\ FipIdle
    /\ ExtNicIdle

\* the orchestrator runs connect_security_group: at first, after an error it
\* retries, or again
ConnectInvoke ==
    /\ sgPc = "idle"
    /\ sgOp \in {"none", "connect"}
    /\ sgOutcome \in {"none", "ok", "RecoverableError", "ProviderError"}
    /\ sgInvocations < MaxSgInvocations
    /\ sgInvocations' = sgInvocations + 1
    /\ sgOp' = "connect"
    /\ sgCalls' = <<>>
    /\ sgOutcome' = "running"
    /\ present' = FALSE
    /\ sgPc' = IF is_external_relationship_not_conditionally_created
               THEN "external" ELSE "read"
    /\ UNCHANGED <<sgExternal, sgConditional, serverGroups, sgPending,
                   sgAdds, sgConnected>>
    /\ UNCHANGED otherThanSg

\* the check of two external resources
ConnectExternal ==
    /\ sgPc = "external"
    /\ SgCalled("servers.get")
    /\ IF \E id \in serverGroups : id = security_group_id
       THEN SgEnd("ok")
       ELSE SgEnd("NonRecoverableError")
    /\ UNCHANGED <<sgExternal, sgConditional, serverGroups, sgPending, sgOp,
                   present, sgAdds, sgInvocations>>
    /\ UNCHANGED otherThanSg

\* server = servers.get(server_id); present = any(map(group_matches, ...))
ConnectRead ==
    /\ sgPc = "read"
    /\ SgCalled("servers.get")
    /\ present' = (\E id \in serverGroups : group_matches(id))
    /\ sgPc' = IF present' THEN "validate" ELSE "add"
    /\ UNCHANGED <<sgExternal, sgConditional, serverGroups, sgPending, sgOp,
                   sgAdds, sgConnected, sgInvocations, sgOutcome>>
    /\ UNCHANGED otherThanSg

\* server.add_security_group(security_group_name)
ConnectAdd ==
    /\ sgPc = "add"
    /\ sgAdds' = sgAdds + 1
    /\ \E answer \in {"applied", "accepted", "failed"} :
          CASE answer = "applied" ->
                 /\ SgCalled("add_security_group(name)")
                 /\ serverGroups' = serverGroups \cup {security_group_id}
                 /\ sgPc' = "validate"
                 /\ UNCHANGED <<sgPending, sgOutcome, sgConnected>>
            [] answer = "accepted" ->
                 /\ SgCalled("add_security_group(name)")
                 /\ sgPending' = sgPending \cup {"add"}
                 /\ sgPc' = "validate"
                 /\ UNCHANGED <<serverGroups, sgOutcome, sgConnected>>
            [] answer = "failed" ->
                 /\ SgCalled("add_security_group(name):error")
                 /\ SgEnd("ProviderError")
                 /\ UNCHANGED <<serverGroups, sgPending>>
    /\ UNCHANGED <<sgExternal, sgConditional, sgOp, present, sgInvocations>>
    /\ UNCHANGED otherThanSg

\* _validate_security_group_and_server_connection_status(is_connected=True)
ConnectValidate ==
    /\ sgPc = "validate"
    /\ sgOp = "connect"
    /\ SgCalled("servers.get")
    /\ IF Validated(TRUE, serverGroups)
       THEN SgEnd("ok")
       ELSE SgEnd("RecoverableError")
    /\ UNCHANGED <<sgExternal, sgConditional, serverGroups, sgPending, sgOp,
                   present, sgAdds, sgInvocations>>
    /\ UNCHANGED otherThanSg

\* the orchestrator runs disconnect_security_group: at first, or after an
\* error it retries
DisconnectInvoke ==
    /\ sgPc = "idle"
    /\ sgOutcome \in {"none", "ok", "RecoverableError", "ProviderError"}
    /\ sgOp = "disconnect" => sgOutcome # "ok"
    /\ sgInvocations < MaxSgInvocations
    /\ sgInvocations' = sgInvocations + 1
    /\ sgOp' = "disconnect"
    /\ sgCalls' = <<>>
    /\ present' = FALSE
    /\ IF is_external_relationship
       THEN /\ sgOutcome' = "ok"
            /\ sgPc' = "idle"
       ELSE /\ sgOutcome' = "running"
            /\ sgPc' = "remove"
    /\ UNCHANGED <<sgExternal, sgConditional, serverGroups, sgPending,
                   sgAdds, sgConnected>>
    /\ UNCHANGED otherThanSg

\* server = servers.get(server_id);
\* server.remove_security_group(security_group_name)
DisconnectRemove ==
    /\ sgPc = "remove"
    /\ IF security_group_id \in serverGroups
       THEN \E answer \in {"applied", "accepted", "failed"} :
              CASE answer = "applied" ->
                     /\ sgCalls' = sgCalls \o <<"servers.get",
                                                "remove_security_group(name)">>
                     /\ serverGroups' = serverGroups \ {security_group_id}
                     /\ sgPc' = "validate"
                     /\ UNCHANGED <<sgPending, sgOutcome, sgConnected>>
                [] answer = "accepted" ->
                     /\ sgCalls' = sgCalls \o <<"servers.get",
                                                "remove_security_group(name)">>
                     /\ sgPending' = sgPending \cup {"remove"}
                     /\ sgPc' = "validate"
                     /\ UNCHANGED <<serverGroups, sgOutcome, sgConnected>>
                [] answer = "failed" ->
                     /\ sgCalls' = sgCalls \o
                            <<"servers.get", "remove_security_group(name):error">>
                     /\ SgEnd("ProviderError")
                     /\ UNCHANGED <<serverGroups, sgPending>>
       ELSE \* nova_exceptions.NotFound: logged and skipped
            /\ sgCalls' = sgCalls \o
                   <<"servers.get", "remove_security_group(name):NotFound">>
            /\ SgEnd("ok")
            /\ UNCHANGED <<serverGroups, sgPending>>
    /\ UNCHANGED <<sgExternal, sgConditional, sgOp, present, sgAdds,
                   sgInvocations>>
    /\ UNCHANGED otherThanSg

\* _validate_security_group_and_server_connection_status(is_connected=False)
DisconnectValidate ==
    /\ sgPc = "validate"
    /\ sgOp = "disconnect"
    /\ SgCalled("servers.get")
    /\ IF Validated(FALSE, serverGroups)
       THEN SgEnd("ok")
       ELSE SgEnd("RecoverableError")
    /\ UNCHANGED <<sgExternal, sgConditional, serverGroups, sgPending, sgOp,
                   present, sgAdds, sgInvocations>>
    /\ UNCHANGED otherThanSg

\* the provider applies a command it had accepted
SgConverge ==
    /\ \E command \in sgPending :
          /\ sgPending' = sgPending \ {command}
          /\ serverGroups' = IF command = "add"
                             THEN serverGroups \cup {security_group_id}
                             ELSE serverGroups \ {security_group_id}
    /\ UNCHANGED <<sgExternal, sgConditional, sgOp, sgPc, present, sgCalls,
                   sgAdds, sgConnected, sgInvocations, sgOutcome>>
    /\ UNCHANGED otherThanSg

NextSecurityGroup ==
    \/ ConnectInvoke \/ ConnectExternal \/ ConnectRead \/ ConnectAdd
    \/ ConnectValidate
    \/ DisconnectInvoke \/ DisconnectRemove \/ DisconnectValidate
    \/ SgConverge

SpecSecurityGroup == InitSecurityGroup /\ [][NextSecurityGroup]_vars

\* ------------------------------------------------------------------------
\* Properties of the security group operations (SpecSecurityGroup)
\* ------------------------------------------------------------------------
\* the provider lists the target group, or a group of its name, for the
\* server
TargetListed ==
    \E id \in serverGroups : id = "g1" \/ GroupName(id) = "web"

AddCommands ==
    {i \in DOMAIN sgCalls : sgCalls[i] \in {"add_security_group(name)",
                                            "add_security_group(name):error"}}

\* C27  Connect does not mutate when satisfied: connect_security_group of a
\* managed relationship reads the server's groups before anything else and
\* issues add_security_group, by name, only when that read listed no group
\* with the target's id or name; once a connect invocation has succeeded no
\* later connect invocation issues an add.
C27_ConnectOnlyWhenAbsent ==
    /\ [][(sgPc = "read" /\ sgPc' # "read") =>
              /\ sgCalls = <<>>
              /\ sgPc' = "add" <=> ~TargetListed
              /\ sgPc' = "validate" <=> TargetListed]_vars
    /\ [][sgAdds' # sgAdds =>
              /\ sgOp = "connect" /\ sgPc = "add"
              /\ ~is_external_relationship_not_conditionally_created
              /\ sgCalls = <<"servers.get">>
              /\ sgAdds' = sgAdds + 1]_vars
    /\ [](\A i \in AddCommands : i = 2 /\ sgCalls[1] = "servers.get")
    /\ [][sgConnected => sgAdds' = sgAdds]_vars

C27_Witness ==
    /\ sgConnected
    /\ sgOp = "connect"
    /\ sgOutcome = "ok"
    /\ sgInvocations = 2
    /\ sgAdds = 1
    /\ sgCalls = <<"servers.get", "servers.get">>

\* a managed invocation returns or raises
SgEnds == sgPc # "idle" /\ sgPc' = "idle"

\* C28  Security group post-condition: a managed connect_security_group
\* returns only after a last read of the server that lists the target group
\* by id, a disconnect_security_group that issued a remove returns only with
\* the target group not listed (after a last read that does not list it when
\* the remove was accepted); when the read after the mutation does not show
\* the expected membership the invocation ends with RecoverableError, never
\* with NonRecoverableError.
C28_PostCondition ==
    /\ [][(SgEnds /\ sgOp = "connect" /\ sgPc # "external"
              /\ sgOutcome' = "ok") =>
              /\ "g1" \in serverGroups'
              /\ sgPc = "validate"
              /\ sgCalls'[Len(sgCalls')] = "servers.get"]_vars
    /\ [][(SgEnds /\ sgOp = "disconnect" /\ sgOutcome' = "ok") =>
              /\ "g1" \notin serverGroups'
              /\ "remove_security_group(name)" \in Range(sgCalls') =>
                     /\ sgPc = "validate"
                     /\ sgCalls'[Len(sgCalls')] = "servers.get"]_vars
    /\ [][(SgEnds /\ sgPc = "validate") =>
              /\ sgOutcome' \in {"ok", "RecoverableError"}
              /\ sgOutcome' = "RecoverableError"
                     <=> ((sgOp = "connect") # ("g1" \in serverGroups))]_vars

C28_Witness ==
    /\ sgOp = "connect"
    /\ sgOutcome = "RecoverableError"
    /\ sgCalls = <<"servers.get", "add_security_group(name)", "servers.get">>
    /\ sgPending = {"add"}
    /\ "g1" \notin serverGroups

\* ------------------------------------------------------------------------
\* SpecErrors: an operation under with_nova_client whose body raises, run
\* again by the orchestrator until a non-recoverable error
\* ------------------------------------------------------------------------
MaxErrorInvocations == 3
MaxRetryAfter == 2

\* retry_after = None
NoRetryAfter == -1

NonRecoverableCodesWithoutConflict == {400, 401, 403, 404}

_non_recoverable_error_codes == {400, 401, 403, 404, 409}

\* what the body of an operation raises: a nova ClientException with its
\* code, an OverLimit (code 413) with its retry_after, or another exception
RaisedChoices ==
    [kind : {"ClientException"},
     code : {400, 401, 403, 404, 405, 409, 500, 503}, retry_after : {0}]
    \cup [kind : {"OverLimit"}, code : {413}, retry_after : 0..MaxRetryAfter]
    \cup [kind : {"RuntimeError", "NonRecoverableError"}, code : {0},
          retry_after : {0}]

\* _re_raise(e, recoverable, retry_after, status_code); status_code 0 is None
_re_raise(e, recoverable, retry_after, status_code) ==
    IF recoverable
    THEN [type |-> "RecoverableError", code |-> status_code,
          retry_after |-> IF retry_after = 0 THEN NoRetryAfter
                          ELSE retry_after,
          wraps |-> e.kind]
    ELSE [type |-> "NonRecoverableError", code |-> status_code,
          retry_after |-> NoRetryAfter, wraps |-> e.kind]

\* the except clauses of with_nova_client's wrapper
with_nova_client(e) ==
    IF e.kind = "OverLimit"
    THEN _re_raise(e, TRUE, e.retry_after, 0)
    ELSE IF e.kind = "ClientException"
              /\ e.code \in _non_recoverable_error_codes
    THEN _re_raise(e, FALSE, NoRetryAfter, e.code)
    ELSE [type |-> e.kind, code |-> e.code, retry_after |-> e.retry_after,
          wraps |-> "none"]

InitErrors ==
    /\ raisedError = [kind |-> "none", code |-> 0, retry_after |-> 0]
    /\ surfaced = [type |-> "none", code |-> 0, retry_after |-> 0,
                   wraps |-> "none"]
    /\ errorPc = "idle"
    /\ errorInvocations = 0
    /\ NicsIdle
    /\ LifeIdle
    /\ SnapIdle
    /\ AttachIdle
    /\ PowerArgsIdle
    /\ ValidateIdle
    /\ ResolveIdle
    /\ PayloadIdle
    /\ SgIdle
    /\ FipIdle
    /\ ExtNicIdle

\* the operation is run and its body raises
BodyRaises ==
    /\ errorPc = "idle"
    /\ surfaced.type # "NonRecoverableError"
    /\ errorInvocations < MaxErrorInvocations
    /\ errorInvocations' = errorInvocations + 1
    /\ raisedError' \in RaisedChoices
    /\ errorPc' = "raised"
    /\ UNCHANGED surfaced
    /\ UNCHANGED otherThanErrors

\* the wrapper's except clauses
WrapperHandles ==
    /\ errorPc = "raised"
    /\ surfaced' = with_nova_client(raisedError)
    /\ errorPc' = "idle"
    /\ UNCHANGED <<raisedError, errorInvocations>>
    /\ UNCHANGED otherThanErrors

NextErrors == BodyRaises \/ WrapperHandles

SpecErrors == InitErrors /\ [][NextErrors]_vars

\* ------------------------------------------------------------------------
\* Properties of the client wrapper (SpecErrors)
\* ------------------------------------------------------------------------
\* C29  Provider error classification: a nova client error with code 400,
\* 401, 403, 404 or 409 leaves the wrapper as NonRecoverableError; an
\* OverLimit leaves it as RecoverableError with the provider's retry_after,
\* or with none when that is 0; a client error with another code leaves it
\* as it was raised.
C29_ErrorClassification ==
    (errorPc = "idle" /\ errorInvocations > 0) =>
        /\ (raisedError.kind = "ClientException"
               /\ raisedError.code \in {400, 401, 403, 404, 409}) =>
               /\ surfaced.type = "NonRecoverableError"
               /\ surfaced.code = raisedError.code
        /\ raisedError.kind = "OverLimit" =>
               /\ surfaced.type = "RecoverableError"
               /\ raisedError.retry_after > 0 =>
                      surfaced.retry_after = raisedError.retry_after
               /\ raisedError.retry_after = 0 => surfaced.retry_after = -1
        /\ (raisedError.kind = "ClientException"
               /\ raisedError.code \notin {400, 401, 403, 404, 409}) =>
               /\ surfaced.type = "ClientException"
               /\ surfaced.code = raisedError.code
               /\ surfaced.wraps = "none"

C29_Witness ==
    /\ errorPc = "idle"
    /\ errorInvocations = 3
    /\ raisedError.kind = "ClientException"
    /\ raisedError.code = 409
    /\ surfaced.type = "NonRecoverableError"

\* ------------------------------------------------------------------------
\* Re-invocation of delete (SpecLifecycle)
\* ------------------------------------------------------------------------
\* C31  Delete is safe to re-invoke: when a delete invocation has issued
\* servers.delete and ended with the RuntimeError of the poll timeout, and the
\* provider no longer has the server, the next invocation of delete ends with
\* success and has cleared the stored runtime properties.
C31_DeleteReinvocation ==
    [][(/\ lastOp.name = "delete" /\ lastOp.outcome = "RuntimeError"
        /\ "servers.delete" \in Range(lastOp.commands)
        /\ OPENSTACK_ID_PROPERTY \in DOMAIN rt
        /\ rt[OPENSTACK_ID_PROPERTY] \notin DOMAIN novaServers
        /\ invocations' = invocations + 1)
       => /\ lastOp'.name = "delete" /\ lastOp'.outcome = "ok"
          /\ RUNTIME_PROPERTIES_KEYS \cap DOMAIN rt' = {}]_vars

\* ------------------------------------------------------------------------
\* SpecFloatingIp: connect_floatingip, run again after every retry it asks
\* for, and disconnect_floatingip, for one server and one floating IP
\* ------------------------------------------------------------------------
MaxFipInvocations == 3

floating_ip_address == "172.24.4.10"

FixedIpChoices == {"", "10.0.0.5"}

\* is_external_relationship_not_conditionally_created(ctx) of the
\* server-to-floating-IP relationship
FipExternalNotConditionallyCreated == fipExternal /\ ~fipConditional

\* is_external_relationship(ctx) of the same relationship
FipExternalRelationship == fipExternal

\* server.add_floating_ip(floating_ip_address, fixed_ip or None)
AddFloatingIpCall(fixed) ==
    "add_floating_ip(" \o floating_ip_address \o ", "
        \o (IF fixed = "" THEN "None" ELSE fixed) \o ")"

\* get_server_floating_ip(neutron_client, server_id): the floating IP record
\* of the server, None when it has none
get_server_floating_ip(associated) ==
    IF associated THEN [floating_ip_address |-> floating_ip_address] ELSE None

InitFloatingIp ==
    /\ fipExternal \in BOOLEAN
    /\ fipConditional \in BOOLEAN
    /\ fixed_ip \in FixedIpChoices
    /\ fipAssociated \in BOOLEAN
    /\ fipListed = fipAssociated
    /\ fipOp = "none"
    /\ fipPc = "idle"
    /\ fipCalls = <<>>
    /\ fipAdds = 0
    /\ fipRemoves = 0
    /\ fipInvocations = 0
    /\ fipOutcome = "none"
    /\ NicsIdle
    /\ LifeIdle
    /\ SnapIdle
    /\ AttachIdle
    /\ PowerArgsIdle
    /\ ValidateIdle
    /\ ResolveIdle
    /\ PayloadIdle
    /\ SgIdle
    /\ ErrorIdle
    /\ ExtNicIdle

\* connect_floatingip up to and including server.add_floating_ip: the first
\* invocation, or the one the orchestrator makes after a requested retry
FipConnectInvoke ==
    /\ fipPc = "idle"
    /\ \/ fipOp = "none"
       \/ fipOp = "connect" /\ fipOutcome = "retry"
    /\ fipInvocations < MaxFipInvocations
    /\ fipInvocations' = fipInvocations + 1
    /\ fipOp' = "connect"
    /\ IF FipExternalNotConditionallyCreated
       THEN /\ fipCalls' = <<"floating_ips.get">>
            /\ fipOutcome' = IF fipAssociated THEN "ok"
                             ELSE "NonRecoverableError"
            /\ UNCHANGED <<fipPc, fipAdds, fipAssociated>>
       ELSE /\ fipCalls' = <<"servers.get", AddFloatingIpCall(fixed_ip)>>
            /\ fipAdds' = fipAdds + 1
            /\ fipAssociated' = TRUE
            /\ fipPc' = "added"
            /\ fipOutcome' = "running"
    /\ UNCHANGED <<fipExternal, fipConditional, fixed_ip, fipListed,
                   fipRemoves>>
    /\ UNCHANGED otherThanFip

\* the second servers.get of connect_floatingip and the test of the address
\* against the server's addresses
FipConnectCheck ==
    /\ fipPc = "added"
    /\ fipCalls' = Append(fipCalls, "servers.get")
    /\ fipOutcome' = IF fipListed THEN "ok" ELSE "retry"
    /\ fipPc' = "idle"
    /\ UNCHANGED <<fipExternal, fipConditional, fixed_ip, fipAssociated,
                   fipListed, fipOp, fipAdds, fipRemoves, fipInvocations>>
    /\ UNCHANGED otherThanFip

\* the provider lists the address of an associated floating IP among the
\* server's addresses
NovaListsAddress ==
    /\ fipAssociated /\ ~fipListed
    /\ fipListed' = TRUE
    /\ UNCHANGED <<fipExternal, fipConditional, fixed_ip, fipAssociated, fipOp,
                   fipPc, fipCalls, fipAdds, fipRemoves, fipInvocations,
                   fipOutcome>>
    /\ UNCHANGED otherThanFip

\* disconnect_floatingip, after a connect that succeeded
FipDisconnectInvoke ==
    /\ fipPc = "idle"
    /\ fipOp = "connect" /\ fipOutcome = "ok"
    /\ fipInvocations < MaxFipInvocations
    /\ fipInvocations' = fipInvocations + 1
    /\ fipOp' = "disconnect"
    /\ fipOutcome' = "ok"
    /\ IF FipExternalRelationship
       THEN /\ fipCalls' = <<>>
            /\ UNCHANGED <<fipRemoves, fipAssociated, fipListed>>
       ELSE LET server_floating_ip == get_server_floating_ip(fipAssociated)
            IN  IF server_floating_ip # None
                THEN /\ fipCalls' = <<"get_server_floating_ip", "servers.get",
                                      "remove_floating_ip("
                                        \o server_floating_ip.floating_ip_address
                                        \o ")">>
                     /\ fipRemoves' = fipRemoves + 1
                     /\ fipAssociated' = FALSE
                     /\ fipListed' = FALSE
                ELSE /\ fipCalls' = <<"get_server_floating_ip">>
                     /\ UNCHANGED <<fipRemoves, fipAssociated, fipListed>>
    /\ UNCHANGED <<fipExternal, fipConditional, fixed_ip, fipPc, fipAdds>>
    /\ UNCHANGED otherThanFip

NextFloatingIp ==
    \/ FipConnectInvoke
    \/ FipConnectCheck
    \/ NovaListsAddress
    \/ FipDisconnectInvoke

SpecFloatingIp == InitFloatingIp /\ [][NextFloatingIp]_vars

\* C32  Floating-IP attach is not double-applied: over the first invocation
\* of connect_floatingip and the invocations that follow its retries,
\* add_floating_ip is issued at most once for the server and the address.
C32_SingleAdd == fipAdds <= 1

\* ------------------------------------------------------------------------
\* The reboot command over the invocations of reboot (SpecPower)
\* ------------------------------------------------------------------------
\* servers.reboot commands of the current invocation, accepted or rejected
RebootCommands ==
    Count(trace, "servers.reboot") + Count(trace, "servers.reboot:error")

\* C33  Reboot is issued once: with reboot_type SOFT or HARD in any case the
\* first invocation of reboot issues servers.reboot exactly once and no
\* invocation after a retry issues it; with any other reboot_type the first
\* invocation ends with NonRecoverableError, no command is issued and no
\* invocation follows.
C33_RebootOnce ==
    (snapOp = "reboot" /\ snapInvocations >= 1) =>
        /\ snapInvocations > 1 => RebootCommands = 0
        /\ (/\ snapInvocations = 1
            /\ Upper(reboot_type) \in {"HARD", "SOFT"}
            /\ pc # "reboot_command") => RebootCommands = 1
        /\ Upper(reboot_type) \notin {"HARD", "SOFT"} =>
               /\ RebootCommands = 0
               /\ snapInvocations = 1
               /\ snapOutcome = "NonRecoverableError"
               /\ trace = <<>>

C33_Witness ==
    /\ snapOp = "reboot" /\ snapInvocations = 2
    /\ pc = "idle" /\ snapOutcome = "ok"
    /\ RebootCommands = 0

\* ------------------------------------------------------------------------
\* SpecStartFair: start, invoked again after every retry it asks for.  The
\* orchestrator runs a retried operation again and an invocation runs to
\* its end, so both steps are weakly fair; the provider is as in SpecPower.
\* ------------------------------------------------------------------------
InitStartFair == InitPower /\ snapOp = "start"

NextStartFair == StartReinvoke \/ StartDecide \/ NovaPowerProgress

SpecStartFair ==
    /\ InitStartFair
    /\ [][NextStartFair]_vars
    /\ WF_vars(StartReinvoke)
    /\ WF_vars(StartDecide)

\* the provider reports the server ACTIVE
ReportsActive == serverStatus = SERVER_STATUS_ACTIVE

\* the last invocation asked for the password and the provider had none
PasswordWithheld ==
    /\ pc = "idle" /\ snapOutcome = "retry"
    /\ trace = <<"server.get_password">>

\* an invocation of start has returned with the network and IP properties
\* stored, and the password when use_password is set
StartSucceeded ==
    /\ snapOp = "start" /\ pc = "idle" /\ snapOutcome = "ok"
    /\ {NETWORKS_PROPERTY, IP_PROPERTY} \cup IpListKeys \subseteq DOMAIN rt
    /\ use_password => ADMIN_PASSWORD_PROPERTY \in DOMAIN rt

\* an invocation of start has ended with an error
StartFailed ==
    /\ snapOp = "start" /\ pc = "idle" /\ snapInvocations >= 1
    /\ snapOutcome \notin {"ok", "retry"}

C35_StopBeforeRestore ==
    (snapOp = "apply" /\ "retry:stop" \in Range(trace)) =>
        "server.rebuild" \notin Range(trace)

\* C36  Restore completion: an invocation of snapshot_apply that returned
\* without a retry request and with restorestate = "done" saw the server
\* ACTIVE last: it either found it ACTIVE before the start step, or did not
\* find it SHUTOFF after the start command and the wait.
C36_RestoreCompletion ==
    (/\ snapOp = "apply" /\ pc = "idle" /\ snapOutcome = "ok"
     /\ Get(rt, "restorestate", "") = "done") =>
        /\ "servers.start" \notin Range(trace)
        /\ server.status = SERVER_STATUS_ACTIVE

\* ------------------------------------------------------------------------
\* What use_external_resource flags for creation (SpecLifecycle)
\* ------------------------------------------------------------------------
\* C37  conditionally_created only for a missing resource: a call of
\* use_external_resource that stores conditionally_created = True was made
\* with a resource_id declared and on a provider that has no server of that
\* name or id; a lookup that is ambiguous or has no resource_id to look up
\* does not store the flag.
C37_OnlyMissingIsFlagged ==
    \A i \in DOMAIN resolutions :
        LET call == resolutions[i]
        IN  (/\ CONDITIONALLY_CREATED \in DOMAIN call.after
             /\ CONDITIONALLY_CREATED \notin DOMAIN call.before) =>
                FindsNothing(call.before)

\* ------------------------------------------------------------------------
\* Connect and disconnect of one relationship (SpecSecurityGroup)
\* ------------------------------------------------------------------------
\* remove_security_group commands of the current invocation, whatever the
\* provider answered
RemoveCommands ==
    Cardinality({i \in DOMAIN sgCalls :
        sgCalls[i] \in {"remove_security_group(name)",
                        "remove_security_group(name):error",
                        "remove_security_group(name):NotFound"}})

\* C38  Connect/disconnect symmetry: when connect_security_group has issued
\* add_security_group for the relationship and succeeded, a
\* disconnect_security_group that returns with success has issued
\* remove_security_group, whatever the ownership of the two ends.
C38_ConnectDisconnectSymmetry ==
    (/\ sgOp = "disconnect" /\ sgPc = "idle" /\ sgOutcome = "ok"
     /\ sgConnected /\ sgAdds > 0) => RemoveCommands > 0

\* ------------------------------------------------------------------------
\* Totality of the NIC composition (SpecNics)
\* ------------------------------------------------------------------------
\* C39  The NIC composer is total: for every inline NIC list whose entries
\* carry a network id, a port id or both, and every management network,
\* _prepare_server_nics returns a NIC list: it does not end with an error;
\* an inline entry with only a port id is kept in the list.
C39_ComposerTotal ==
    nicsOutcome # "pending" =>
        /\ nicsOutcome = "ok"
        /\ \A i \in DOMAIN inlineNics :
               inlineNics[i].net = None =>
                   \E j \in DOMAIN serverNics : serverNics[j] = inlineNics[i]

\* ------------------------------------------------------------------------
\* SpecExternalNics: _validate_external_server_nics, as create runs it for
\* an external server the provider has, invoked again after a provider
\* error
\* ------------------------------------------------------------------------
MaxExtPortRels == 1
MaxExtNetworkRels == 1
MaxExtInvocations == 3

\* the networks a server of the model is related to or attached to
ExtNetworkChoices == {NetA, NetD}

Interface(port_id, net_id) == [port_id |-> port_id, net_id |-> net_id]

\* the port nova makes for an interface attached by network
NetworkPort(net_id) == <<"auto">> \o net_id

\* the interfaces an external server may have when create first runs
InterfaceChoices ==
    {Interface(PortP, PortNetworkId(PortP)), Interface(PortQ,
     PortNetworkId(PortQ)), Interface(NetworkPort(NetA), NetA)}

AlreadyAttachedPortsOnly(ifaces, net_ids, port_ids) ==
    [ports |-> {i.port_id : i \in ifaces} \cap Range(port_ids), nets |-> {}]

\* already_attached_ports and already_attached_nets
already_attached(ifaces, net_ids, port_ids) ==
    [ports |-> {i.port_id : i \in ifaces} \cap Range(port_ids),
     nets |-> {i.net_id : i \in ifaces} \cap Range(net_ids)]

InitExternalNics ==
    /\ extPortIds \in SeqsUpTo(PortIds, MaxExtPortRels)
    /\ extNetworkIds \in SeqsUpTo(ExtNetworkChoices, MaxExtNetworkRels)
    /\ interfaces \in SUBSET InterfaceChoices
    /\ extPc = "idle"
    /\ extIndex = 0
    /\ attached_nets = {}
    /\ extCalls = <<>>
    /\ extOutcome = "none"
    /\ extInvocations = 0
    /\ NicsIdle
    /\ LifeIdle
    /\ SnapIdle
    /\ AttachIdle
    /\ PowerArgsIdle
    /\ ValidateIdle
    /\ ResolveIdle
    /\ PayloadIdle
    /\ SgIdle
    /\ ErrorIdle
    /\ FipIdle

ExtUnchangedDeclaration == UNCHANGED <<extPortIds, extNetworkIds>>

\* create is invoked, the first time or after a provider error:
\* interface_list() and the check of what is attached already
ExtValidate ==
    /\ extPc = "idle"
    /\ extOutcome \in {"none", "ProviderError"}
    /\ extInvocations < MaxExtInvocations
    /\ extInvocations' = extInvocations + 1
    /\ extCalls' = <<"interface_list">>
    /\ LET already == already_attached(interfaces, extNetworkIds, extPortIds)
       IN  IF already.ports # {} \/ already.nets # {}
           THEN /\ extOutcome' = "NonRecoverableError"
                /\ UNCHANGED <<extPc, extIndex>>
           ELSE /\ extOutcome' = "running"
                /\ extPc' = "attach_ports"
                /\ extIndex' = 1
    /\ UNCHANGED <<interfaces, attached_nets>>
    /\ ExtUnchangedDeclaration
    /\ UNCHANGED otherThanExtNics

\* `for port_id in port_ids`: external_server.interface_attach(port_id=...)
ExtAttachPort ==
    /\ extPc = "attach_ports"
    /\ extIndex <= Len(extPortIds)
    /\ LET port_id == extPortIds[extIndex]
       IN  \E accepted \in BOOLEAN :
             IF accepted
             THEN /\ extCalls' = Append(extCalls, "interface_attach(port)")
                  /\ interfaces' = interfaces \cup
                         {Interface(port_id, PortNetworkId(port_id))}
                  /\ extIndex' = extIndex + 1
                  /\ UNCHANGED <<extPc, extOutcome>>
             ELSE /\ extCalls' = Append(extCalls,
                                        "interface_attach(port):error")
                  /\ extPc' = "idle"
                  /\ extOutcome' = "ProviderError"
                  /\ UNCHANGED <<interfaces, extIndex>>
    /\ UNCHANGED <<attached_nets, extInvocations>>
    /\ ExtUnchangedDeclaration
    /\ UNCHANGED otherThanExtNics

\* attached_nets = [interface.net_id for interface in interface_list()]
ExtListNets ==
    /\ extPc = "attach_ports"
    /\ extIndex > Len(extPortIds)
    /\ extCalls' = Append(extCalls, "interface_list")
    /\ attached_nets' = {i.net_id : i \in interfaces}
    /\ extPc' = "attach_nets"
    /\ extIndex' = 1
    /\ UNCHANGED <<interfaces, extOutcome, extInvocations>>
    /\ ExtUnchangedDeclaration
    /\ UNCHANGED otherThanExtNics

\* `for net_id in network_ids`: interface_attach(net_id=...) unless the
\* network was listed
ExtAttachNet ==
    /\ extPc = "attach_nets"
    /\ extIndex <= Len(extNetworkIds)
    /\ LET net_id == extNetworkIds[extIndex]
       IN  IF net_id \notin attached_nets
           THEN \E accepted \in BOOLEAN :
                  IF accepted
                  THEN /\ extCalls' = Append(extCalls, "interface_attach(net)")
                       /\ interfaces' = interfaces \cup
                              {Interface(NetworkPort(net_id), net_id)}
                       /\ extIndex' = extIndex + 1
                       /\ UNCHANGED <<extPc, extOutcome>>
                  ELSE /\ extCalls' = Append(extCalls,
                                             "interface_attach(net):error")
                       /\ extPc' = "idle"
                       /\ extOutcome' = "ProviderError"
                       /\ UNCHANGED <<interfaces, extIndex>>
           ELSE /\ extIndex' = extIndex + 1
                /\ UNCHANGED <<extCalls, interfaces, extPc, extOutcome>>
    /\ UNCHANGED <<attached_nets, extInvocations>>
    /\ ExtUnchangedDeclaration
    /\ UNCHANGED otherThanExtNics

\* _validate_external_server_nics returns
ExtReturn ==
    /\ extPc = "attach_nets"
    /\ extIndex > Len(extNetworkIds)
    /\ extPc' = "idle"
    /\ extOutcome' = "ok"
    /\ UNCHANGED <<interfaces, extIndex, attached_nets, extCalls,
                   extInvocations>>
    /\ ExtUnchangedDeclaration
    /\ UNCHANGED otherThanExtNics

NextExternalNics ==
    \/ ExtValidate
    \/ ExtAttachPort
    \/ ExtListNets
    \/ ExtAttachNet
    \/ ExtReturn

SpecExternalNics == InitExternalNics /\ [][NextExternalNics]_vars

\* a port or a network the server is related to is attached to it
DeclaredTargetAttached ==
    \E i \in interfaces :
        \/ \E p \in DOMAIN extPortIds : extPortIds[p] = i.port_id
        \/ \E n \in DOMAIN extNetworkIds : extNetworkIds[n] = i.net_id

\* C40  External-server NIC conflict: an invocation of create for an
\* external server that starts while a port or a network the server is
\* related to is attached to it ends with NonRecoverableError at the check,
\* having issued no interface_attach and changed no interface, also when the
\* attachment was made by an earlier invocation.
C40_ExternalNicConflict ==
    [][(/\ extPc = "idle"
        /\ extInvocations' = extInvocations + 1
        /\ DeclaredTargetAttached)
       => /\ extOutcome' = "NonRecoverableError"
          /\ extPc' = "idle"
          /\ extCalls' = <<"interface_list">>
          /\ interfaces' = interfaces]_vars

\* the second invocation met what the first had attached
C40_Witness ==
    /\ extInvocations = 2
    /\ extOutcome = "NonRecoverableError"
    /\ extCalls = <<"interface_list">>
    /\ Interface(PortP, PortNetworkId(PortP)) \in interfaces
    /\ extNetworkIds = <<NetA>>
    /\ NetA \notin {i.net_id : i \in interfaces}

====
